---- MODULE Spec2Model ----
(***************************************************************************)
(* A model of posthoc's result algebra (posthoc/results/result.py) and of  *)
(* its generic line parser (posthoc/results/txt.py with the CSV tokenizer  *)
(* of posthoc/datasources/txt.py).                                        *)
(*                                                                         *)
(* numpy arrays are views onto buffers of a heap, so that what an          *)
(* operation copies, what it rebinds and what it writes in place are all   *)
(* visible.  Array elements are float64 values held exactly: a finite      *)
(* value is (p/q)*sqrt(r) with r squarefree, next to nan, +-inf and        *)
(* +-finfo.max; rounding to 53 bits is not modelled.                       *)
(***************************************************************************)
EXTENDS Integers, Sequences, FiniteSets, TLC

VARIABLES
    heap,       \* the buffers of the live numpy arrays
    pool,       \* the Results the caller holds, by variable (None: unbound)
    TOLERANCE,  \* the module global of results/result.py
    prov,       \* per variable: how its Result came about
    last,       \* the last call: operator, operands, outcome, values before it
    steps,      \* calls made so far
    file,       \* TXTResult: the lines of the file named file_name
    parser,     \* TXTResult: the tokenizer
    pos,        \* result(): lines of the file consumed by the loop
    xs,         \* result(): the lists xs, ys, eys, exs
    ys,
    eys,
    exs,
    n_tokens,   \* result(): <<>> while None, then <<n>>
    pc,         \* result(): "idle", "reading", "returned" or "raised"
    returned,   \* what result() returned
    raised,     \* what result() raised
    request,    \* the arguments of the parser call at work or last made
    start_dict, \* MCTALResult: tally number -> offset of the tally's lines
    result_dict,\* MCTALResult: (tally_number, zone_number) -> the Result
    state,      \* extract_result(): the locals state, zones, n_zones,
    zones,      \*   zone_index, n_vals, must_skip (None: not yet bound)
    n_zones,
    zone_index,
    n_vals,
    must_skip,
    seen,       \* extract_result(): what the scan did on its last line
    answers,    \* MCTALResult: what result() returned, call by call
    batch_num,  \* T4TXTResult: the fields batch_num, endpoints and
    endpoints,  \*   score_numbers
    score_numbers,
    score_names,     \* parse_endpoints(): the locals score_names,
    score_endpoints, \*   score_endpoints, region_start, this_batch_num
    region_start,
    this_batch_num,
    span,       \* the (start, end) the last result() of a T4TXTResult read
    soup,       \* T4XMLResult: the parsed tree of the XML file
    divide_by_bin, \* T4XMLResult: the attribute mean_result leaves for labels
    found,      \* the child of soup.batches the last call read, 0 for none
    asked       \* by score name, the divide_by_bin of the last mean_result for it

resultVars == <<heap, pool, TOLERANCE, prov, last, steps>>
txtVars == <<file, parser, pos, xs, ys, eys, exs, n_tokens, pc, returned, raised>>
mctalVars == <<request, start_dict, result_dict, state, zones, n_zones, zone_index,
               n_vals, must_skip, seen, answers>>
t4txtVars == <<batch_num, endpoints, score_numbers, score_names, score_endpoints,
               region_start, this_batch_num, span>>
\* the variables of the parsers other than TXTResult
t4xmlVars == <<soup, divide_by_bin, found, asked>>
parserVars == <<mctalVars, t4txtVars, t4xmlVars>>
vars == <<resultVars, txtVars, parserVars>>

\* ------------------------------------------------------------------------
\* float64 values
\* ------------------------------------------------------------------------

None == [k |-> "none"]

Fin(p, q, r) == [k |-> "fin", p |-> p, q |-> q, r |-> r]
Special(kind, s) == [k |-> kind, p |-> s, q |-> 1, r |-> 1]
NaN == Special("nan", 0)
PInf == Special("inf", 1)
NInf == Special("inf", -1)
Inf(s) == Special("inf", s)
\* +-np.finfo(float).max, what nan_to_num puts in place of +-inf
MaxF(s) == Special("max", s)
\* a real number outside the field { (p/q)*sqrt(r) }: never produced by the
\* operations of the model on the inputs it draws (see NoIrr)
Irr == Special("irr", 0)
Zero == Fin(0, 1, 1)
Int2Num(n) == Fin(n, 1, 1)
Rat(p, q) == Fin(p, q, 1)

AbsI(n) == IF n < 0 THEN -n ELSE n
SgnI(n) == IF n < 0 THEN -1 ELSE IF n = 0 THEN 0 ELSE 1

RECURSIVE GCD(_, _)
GCD(a, b) == IF b = 0 THEN a ELSE GCD(b, a % b)

\* the largest k >= from with k*k dividing n, or best when there is none
RECURSIVE SqPartFrom(_, _, _)
SqPartFrom(n, from, best) ==
    IF from * from > n THEN best
    ELSE SqPartFrom(n, from + 1, IF n % (from * from) = 0 THEN from ELSE best)
SqPart(n) == SqPartFrom(n, 2, 1)

\* floor of the square root of n >= 0
RECURSIVE IsqrtFrom(_, _)
IsqrtFrom(n, k) == IF (k + 1) * (k + 1) > n THEN k ELSE IsqrtFrom(n, k + 1)
Isqrt(n) == IsqrtFrom(n, 0)

\* the canonical form of (p/q)*sqrt(r), for q # 0 and r >= 0
Norm(p, q, r) ==
    IF p = 0 \/ r = 0 THEN Zero
    ELSE LET k == SqPart(r)
             pp == p * k * SgnI(q)
             qq == AbsI(q)
             g == GCD(AbsI(pp), qq)
         IN Fin(pp \div g, qq \div g, r \div (k * k))

IsFin(a) == a.k = "fin"
IsNaN(a) == a.k = "nan" \/ a.k = "irr"
IsZero(a) == a.k = "fin" /\ a.p = 0
IsRational(a) == a.k = "fin" /\ a.r = 1
Sign(a) == SgnI(a.p)
Neg(a) == [a EXCEPT !.p = -a.p]
Abs(a) == [a EXCEPT !.p = AbsI(a.p)]

\* |a| > 1 for a finite a
AbsGt1(a) ==
    IF a.r = 1 THEN AbsI(a.p) > a.q ELSE a.p * a.p * a.r > a.q * a.q

Mul(a, b) ==
    IF a.k = "irr" \/ b.k = "irr" THEN Irr
    ELSE IF IsNaN(a) \/ IsNaN(b) THEN NaN
    ELSE IF (a.k = "inf" /\ IsZero(b)) \/ (b.k = "inf" /\ IsZero(a)) THEN NaN
    ELSE IF a.k = "inf" \/ b.k = "inf" THEN Inf(Sign(a) * Sign(b))
    ELSE IF IsZero(a) \/ IsZero(b) THEN Zero
    ELSE IF a.k = "max" /\ b.k = "max" THEN Inf(Sign(a) * Sign(b))
    ELSE IF a.k = "max" THEN
        (IF AbsGt1(b) THEN Inf(Sign(a) * Sign(b)) ELSE MaxF(Sign(a) * Sign(b)))
    ELSE IF b.k = "max" THEN
        (IF AbsGt1(a) THEN Inf(Sign(a) * Sign(b)) ELSE MaxF(Sign(a) * Sign(b)))
    ELSE Norm(a.p * b.p, a.q * b.q, a.r * b.r)

\* numpy's true division of float64 values: x/0 is +-inf, 0/0 is nan
Div(a, b) ==
    IF a.k = "irr" \/ b.k = "irr" THEN Irr
    ELSE IF IsNaN(a) \/ IsNaN(b) THEN NaN
    ELSE IF IsZero(b) THEN (IF IsZero(a) THEN NaN ELSE Inf(Sign(a)))
    ELSE IF a.k = "inf" THEN
        (IF b.k = "inf" THEN NaN ELSE Inf(Sign(a) * Sign(b)))
    ELSE IF b.k = "inf" THEN Zero
    ELSE IF IsZero(a) THEN Zero
    ELSE IF b.k = "max" THEN
        (IF a.k = "max" THEN Int2Num(Sign(a) * Sign(b)) ELSE Zero)
    ELSE IF a.k = "max" THEN
        (IF AbsGt1(b) \/ Abs(b) = Int2Num(1)
            THEN MaxF(Sign(a) * Sign(b)) ELSE Inf(Sign(a) * Sign(b)))
    ELSE Norm(a.p * b.q, a.q * b.p * b.r, a.r * b.r)

Add(a, b) ==
    IF a.k = "irr" \/ b.k = "irr" THEN Irr
    ELSE IF IsNaN(a) \/ IsNaN(b) THEN NaN
    ELSE IF a.k = "inf" /\ b.k = "inf" THEN (IF a.p = b.p THEN a ELSE NaN)
    ELSE IF a.k = "inf" THEN a
    ELSE IF b.k = "inf" THEN b
    ELSE IF a.k = "max" /\ b.k = "max" THEN (IF a.p = b.p THEN Inf(a.p) ELSE Zero)
    ELSE IF a.k = "max" THEN a
    ELSE IF b.k = "max" THEN b
    ELSE IF IsZero(a) THEN b
    ELSE IF IsZero(b) THEN a
    ELSE IF a.r = b.r THEN Norm(a.p * b.q + b.p * a.q, a.q * b.q, a.r)
    ELSE Irr

Sub(a, b) == Add(a, Neg(b))
Sq(a) == Mul(a, a)

\* np.sqrt; the code takes it of sums and means of squares only
Sqrt(a) ==
    IF a.k = "irr" THEN Irr
    ELSE IF IsNaN(a) THEN NaN
    ELSE IF a.k = "inf" THEN (IF a.p > 0 THEN PInf ELSE NaN)
    ELSE IF a.p < 0 THEN NaN
    ELSE IF IsZero(a) THEN Zero
    ELSE IF a.k = "max" \/ a.r # 1 THEN Irr
    ELSE Norm(1, a.q, a.p * a.q)

\* the place of a value on the extended line: -inf < -max < finite < max < inf
Rank(a) == IF a.k = "inf" THEN 2 * a.p ELSE IF a.k = "max" THEN a.p ELSE 0

\* a < b as float comparison: false when either is nan
Lt(a, b) ==
    IF IsNaN(a) \/ IsNaN(b) THEN FALSE
    ELSE IF Rank(a) # Rank(b) THEN Rank(a) < Rank(b)
    ELSE IF a.k # "fin" THEN FALSE
    ELSE IF a.r = b.r THEN
        \* p/q by integer part, then by fractional part
        (IF a.p \div a.q # b.p \div b.q THEN a.p \div a.q < b.p \div b.q
         ELSE (a.p % a.q) * b.q < (b.p % b.q) * a.q)
    ELSE IF Sign(a) # Sign(b) THEN Sign(a) < Sign(b)
    ELSE IF Sign(a) > 0
        THEN a.p * a.p * a.r * b.q * b.q < b.p * b.p * b.r * a.q * a.q
        ELSE a.p * a.p * a.r * b.q * b.q > b.p * b.p * b.r * a.q * a.q

Le(a, b) == Lt(a, b) \/ (a = b /\ ~IsNaN(a))

\* np.nan_to_num
NanToNum(a) ==
    IF a.k = "nan" THEN Zero
    ELSE IF a.k = "inf" THEN MaxF(a.p)
    ELSE a

\* ------------------------------------------------------------------------
\* np.allclose
\* ------------------------------------------------------------------------

\* TOLERANCE = None (result.py:12): the module's default
NoTolerance == None

\* np.finfo(dtype).eps.  float64's 2^-52 next to rtol = 1e-5 is beyond TLC's
\* 32-bit integers; Eps is 2^-10, finfo(float16).eps, in its place.  Where
\* TOLERANCE is None the values compared are equal or at least 1/4 apart, so
\* that 100*2^-52 and 100*2^-10 decide every comparison alike.
Eps == Rat(1, 1024)

\* the rtol that np.allclose(a, b, atol=tol) leaves at its default, 1e-05
RTOL == Rat(1, 100000)

\* np.maximum of two values
MaxN(a, b) == IF Lt(a, b) THEN b ELSE a

\* tol of _check_consistency_edges
Tol(tolerance) ==
    IF tolerance # NoTolerance /\ ~IsZero(tolerance) THEN tolerance
    ELSE Mul(Int2Num(100), MaxN(Eps, Eps))

\* floor(16*|a|) for a finite a, through the integer square root
Floor16(a) == Isqrt((256 * a.p * a.p * a.r) \div (a.q * a.q))
LoAbs(a) == IF IsRational(a) THEN Abs(a) ELSE Rat(Floor16(a), 16)
HiAbs(a) == IF IsRational(a) THEN Abs(a) ELSE Rat(Floor16(a) + 1, 16)
LoOf(a) == IF Sign(a) >= 0 THEN (IF IsRational(a) THEN a ELSE LoAbs(a)) ELSE Neg(HiAbs(a))
HiOf(a) == IF Sign(a) >= 0 THEN HiAbs(a) ELSE (IF IsRational(a) THEN a ELSE Neg(LoAbs(a)))

\* bounds of |x - y| for finite x, y, exact when both are rational
DiffLo(x, y) ==
    LET l == Sub(LoOf(x), HiOf(y))
        h == Sub(HiOf(x), LoOf(y))
    IN IF Le(Zero, l) THEN l ELSE IF Le(h, Zero) THEN Neg(h) ELSE Zero
DiffHi(x, y) ==
    LET l == Sub(LoOf(x), HiOf(y))
        h == Sub(HiOf(x), LoOf(y))
    IN MaxN(Abs(l), Abs(h))

\* one element of np.isclose(x, y, rtol=1e-05, atol=atol):
\* |x - y| <= atol + rtol*|y| for finite values, x == y otherwise
IsClose(x, y, atol) ==
    IF IsNaN(x) \/ IsNaN(y) THEN FALSE
    ELSE IF x = y THEN TRUE
    ELSE IF ~IsFin(x) \/ ~IsFin(y) THEN FALSE
    ELSE IF IsRational(x) /\ IsRational(y)
        THEN Le(Abs(Sub(x, y)), Add(atol, Mul(RTOL, Abs(y))))
    ELSE Le(DiffHi(x, y), Add(atol, Mul(RTOL, LoAbs(y))))

\* whether IsClose decides an irrational pair with its 1/16 enclosures
CloseDecided(x, y, atol) ==
    \/ ~IsFin(x) \/ ~IsFin(y) \/ x = y
    \/ IsRational(x) /\ IsRational(y)
    \/ Le(DiffHi(x, y), Add(atol, Mul(RTOL, LoAbs(y))))
    \/ Lt(Add(atol, Mul(RTOL, HiAbs(y))), DiffLo(x, y))

\* numpy broadcasting of one-dimensional shapes
Broadcastable(m, n) == m = n \/ m = 1 \/ n = 1
BLen(m, n) == IF m = 1 THEN n ELSE m
At(s, i) == IF Len(s) = 1 THEN s[1] ELSE s[i]

\* np.allclose(a, b, atol=atol) once the shapes broadcast
AllClose(a, b, atol) ==
    \A i \in 1..BLen(Len(a), Len(b)) : IsClose(At(a, i), At(b, i), atol)

\* elementwise operations of arrays, with broadcasting
VAdd(a, b) == [i \in 1..BLen(Len(a), Len(b)) |-> Add(At(a, i), At(b, i))]
VSub(a, b) == [i \in 1..BLen(Len(a), Len(b)) |-> Sub(At(a, i), At(b, i))]
VMul(a, b) == [i \in 1..BLen(Len(a), Len(b)) |-> Mul(At(a, i), At(b, i))]
VDiv(a, b) == [i \in 1..BLen(Len(a), Len(b)) |-> Div(At(a, i), At(b, i))]
VSq(a) == [i \in 1..Len(a) |-> Sq(a[i])]
VSqrt(a) == [i \in 1..Len(a) |-> Sqrt(a[i])]
VNanToNum(a) == [i \in 1..Len(a) |-> NanToNum(a[i])]
\* np.ediff1d
Ediff1d(a) == [i \in 1..(IF Len(a) = 0 THEN 0 ELSE Len(a) - 1) |-> Sub(a[i + 1], a[i])]

RECURSIVE SumSeq(_)
SumSeq(s) == IF Len(s) = 0 THEN Zero ELSE Add(Head(s), SumSeq(Tail(s)))

\* ------------------------------------------------------------------------
\* arrays on a heap
\* ------------------------------------------------------------------------
\* The heap is a sequence of buffers.  An ndarray is a view [k |-> "arr",
\* buf, ix]: the buffer it reads and writes, and the buffer indices it shows.
\* [k |-> "new", v] is an array an operation has just computed and that
\* owns a buffer of its own once the operation returns.

New(v) == [k |-> "new", v |-> v]
View(b, ix) == [k |-> "arr", buf |-> b, ix |-> ix]
IsNone(f) == f.k = "none"

\* the elements an array field shows
Val(h, f) ==
    IF f.k = "new" THEN f.v ELSE [i \in 1..Len(f.ix) |-> h[f.buf][f.ix[i]]]
LenOf(h, f) == IF f.k = "new" THEN Len(f.v) ELSE Len(f.ix)

\* an in-place write of the elements v through the view f
Store(h, f, v) ==
    [h EXCEPT ![f.buf] =
        [j \in 1..Len(h[f.buf]) |->
            IF \E i \in 1..Len(f.ix) : f.ix[i] = j
            THEN v[CHOOSE i \in 1..Len(f.ix) : f.ix[i] = j]
            ELSE h[f.buf][j]]]

\* copy.deepcopy of an array field, or of None
DeepCopy(h, f) == IF IsNone(f) THEN None ELSE New(Val(h, f))

\* a[lo:hi:step] for 0 <= lo, hi and step >= 1: a view of the same buffer
SliceIx(n, lo, hi, step) ==
    LET top == IF hi < n THEN hi ELSE n
        cnt == IF lo >= top THEN 0 ELSE (top - lo + step - 1) \div step
    IN [i \in 1..cnt |-> lo + (i - 1) * step + 1]
Slice(f, lo, hi, step) ==
    LET sel == SliceIx(Len(f.ix), lo, hi, step)
    IN View(f.buf, [i \in 1..Len(sel) |-> f.ix[sel[i]]])

Result(edges, contents, errors, xerrors) ==
    [k |-> "res", edges |-> edges, contents |-> contents, errors |-> errors,
     xerrors |-> xerrors]

Fields == {"edges", "contents", "errors", "xerrors"}

\* the four fields of a Result as values
ValR(h, r) ==
    IF IsNone(r) THEN None
    ELSE Result(DeepCopy(h, r.edges), DeepCopy(h, r.contents),
                DeepCopy(h, r.errors), DeepCopy(h, r.xerrors))

\* the buffers a Result's arrays live in
Bufs(r) == IF IsNone(r) THEN {} ELSE {r[f].buf : f \in {g \in Fields : r[g].k = "arr"}}

\* give every freshly computed array of r a buffer of its own
Mat1(h, f) ==
    IF f.k = "new"
    THEN [h |-> Append(h, f.v), f |-> View(Len(h) + 1, [i \in 1..Len(f.v) |-> i])]
    ELSE [h |-> h, f |-> f]
Materialize(h, r) ==
    LET a == Mat1(h, r.edges)
        b == Mat1(a.h, r.contents)
        c == Mat1(b.h, r.errors)
        d == Mat1(c.h, r.xerrors)
    IN [h |-> d.h, r |-> Result(a.f, b.f, c.f, d.f)]

\* ------------------------------------------------------------------------
\* Result: the arithmetic operators (results/result.py)
\* ------------------------------------------------------------------------
\* The right operand of an operator is Scalar(v) or Operand(r).  An operator
\* yields [ok, ret]: ok is FALSE when the call raises, ret is the Result it
\* returns, its arrays not yet on the heap.

Scalar(v) == [k |-> "scalar", v |-> v]
Operand(r) == [k |-> "operand", r |-> r]
Raised == [ok |-> FALSE, ret |-> None]
Returned(r) == [ok |-> TRUE, ret |-> r]

\* whether arrays of these lengths broadcast together
Compatible(lens) == \A m \in lens, n \in lens : Broadcastable(m, n)

\* an array and a Python float
SAdd(a, v) == [i \in 1..Len(a) |-> Add(a[i], v)]
SSub(a, v) == [i \in 1..Len(a) |-> Sub(a[i], v)]
SMul(a, v) == [i \in 1..Len(a) |-> Mul(a[i], v)]
SDiv(a, v) == [i \in 1..Len(a) |-> Div(a[i], v)]

\* _check_consistency_edges: TRUE when it returns, FALSE when it raises
CheckConsistencyEdges(h, self, other, tolerance) ==
    LET tol == Tol(tolerance)
        se == Val(h, self.edges)
        oe == Val(h, other.edges)
    IN /\ Broadcastable(Len(se), Len(oe))
       /\ AllClose(se, oe, tol)
       /\ \/ IsNone(self.xerrors)
          \/ IsNone(other.xerrors)
          \/ /\ Broadcastable(LenOf(h, self.xerrors), LenOf(h, other.xerrors))
             /\ AllClose(Val(h, self.xerrors), Val(h, other.xerrors), tol)

\* the edges and xerrors every operator starts from: deep copies of self's
\* (CopyEdgesShared: the operand's own array, as `edges = self.edges` would give)
CopyEdgesShared(h, self) == self.edges
CopyEdges(h, self) == DeepCopy(h, self.edges)
CopyXerrors(h, self) == DeepCopy(h, self.xerrors)

\* the errors of __add__ and of __sub__ for two Results
QuadErrors(h, self, other) ==
    IF ~IsNone(self.errors) /\ ~IsNone(other.errors)
    THEN New(VSqrt(VAdd(VSq(Val(h, self.errors)), VSq(Val(h, other.errors)))))
    ELSE IF ~IsNone(other.errors) THEN DeepCopy(h, other.errors)
    ELSE DeepCopy(h, self.errors)

\* whether the arrays the errors branch combines broadcast
ErrorsCompatible(h, self, other) ==
    IsNone(self.errors) \/ IsNone(other.errors)
    \/ Broadcastable(LenOf(h, self.errors), LenOf(h, other.errors))

ResultAdd(h, self, b, tolerance) ==
    IF b.k = "scalar"
    THEN Returned(Result(CopyEdges(h, self), New(SAdd(Val(h, self.contents), b.v)),
                         DeepCopy(h, self.errors), CopyXerrors(h, self)))
    ELSE IF /\ CheckConsistencyEdges(h, self, b.r, tolerance)
            /\ Broadcastable(LenOf(h, self.contents), LenOf(h, b.r.contents))
            /\ ErrorsCompatible(h, self, b.r)
    THEN Returned(Result(CopyEdges(h, self),
                         New(VAdd(Val(h, self.contents), Val(h, b.r.contents))),
                         QuadErrors(h, self, b.r), CopyXerrors(h, self)))
    ELSE Raised

ResultSub(h, self, b, tolerance) ==
    IF b.k = "scalar"
    THEN Returned(Result(CopyEdges(h, self), New(SSub(Val(h, self.contents), b.v)),
                         DeepCopy(h, self.errors), CopyXerrors(h, self)))
    ELSE IF /\ CheckConsistencyEdges(h, self, b.r, tolerance)
            /\ Broadcastable(LenOf(h, self.contents), LenOf(h, b.r.contents))
            /\ ErrorsCompatible(h, self, b.r)
    THEN Returned(Result(CopyEdges(h, self),
                         New(VSub(Val(h, self.contents), Val(h, b.r.contents))),
                         QuadErrors(h, self, b.r), CopyXerrors(h, self)))
    ELSE Raised

\* (MulErrorsOwnContents: a one-sided branch scaling the errors by the
\* contents of the operand they come from)
MulErrorsOwnContents(h, self, other) ==
    LET c1 == Val(h, self.contents)
        c2 == Val(h, other.contents)
    IN IF ~IsNone(self.errors) /\ ~IsNone(other.errors)
       THEN New(VSqrt(VAdd(VSq(VMul(c1, Val(h, other.errors))),
                           VSq(VMul(Val(h, self.errors), c2)))))
       ELSE IF ~IsNone(other.errors) THEN New(VMul(c2, Val(h, other.errors)))
       ELSE IF ~IsNone(self.errors) THEN New(VMul(Val(h, self.errors), c1))
       ELSE None

\* the errors of __mul__ for two Results
MulErrors(h, self, other) ==
    LET c1 == Val(h, self.contents)
        c2 == Val(h, other.contents)
    IN IF ~IsNone(self.errors) /\ ~IsNone(other.errors)
       THEN New(VSqrt(VAdd(VSq(VMul(c1, Val(h, other.errors))),
                           VSq(VMul(Val(h, self.errors), c2)))))
       ELSE IF ~IsNone(other.errors) THEN New(VMul(c1, Val(h, other.errors)))
       ELSE IF ~IsNone(self.errors) THEN New(VMul(Val(h, self.errors), c2))
       ELSE None

\* the lengths of the arrays the contents and errors formulas of __mul__
\* and __div__ combine
ProductLens(h, self, other) ==
    {LenOf(h, self.contents), LenOf(h, other.contents)}
    \cup (IF IsNone(self.errors) THEN {} ELSE {LenOf(h, self.errors)})
    \cup (IF IsNone(other.errors) THEN {} ELSE {LenOf(h, other.errors)})

ResultMul(h, self, b, tolerance) ==
    IF b.k = "scalar"
    THEN (IF IsNone(self.errors) THEN Raised  \* None * float: TypeError
          ELSE Returned(Result(CopyEdges(h, self),
                               New(SMul(Val(h, self.contents), b.v)),
                               New(SMul(Val(h, self.errors), b.v)),
                               CopyXerrors(h, self))))
    ELSE IF /\ CheckConsistencyEdges(h, self, b.r, tolerance)
            /\ Compatible(ProductLens(h, self, b.r))
    THEN Returned(Result(CopyEdges(h, self),
                         New(VMul(Val(h, self.contents), Val(h, b.r.contents))),
                         MulErrors(h, self, b.r), CopyXerrors(h, self)))
    ELSE Raised

\* the contents of __div__ for two Results
DivContents(h, self, other) ==
    New(VDiv(Val(h, self.contents), Val(h, other.contents)))

\* the errors of __div__ for two Results
DivErrors(h, self, other) ==
    LET c1 == Val(h, self.contents)
        c2 == Val(h, other.contents)
        contents == DivContents(h, self, other).v
    IN IF ~IsNone(self.errors) /\ ~IsNone(other.errors)
       THEN New(VNanToNum(VMul(contents,
                VSqrt(VAdd(VSq(VDiv(Val(h, self.errors), c1)),
                           VSq(VDiv(Val(h, other.errors), c2)))))))
       ELSE IF ~IsNone(other.errors)
       THEN New(VNanToNum(VDiv(VMul(contents, Val(h, other.errors)), c2)))
       ELSE IF ~IsNone(self.errors)
       THEN New(VNanToNum(VDiv(Val(h, self.errors), c2)))
       ELSE None

ResultDiv(h, self, b, tolerance) ==
    IF b.k = "scalar"
    THEN (IF IsNone(self.errors) THEN Raised  \* None / float: TypeError
          ELSE Returned(Result(CopyEdges(h, self),
                               New(SDiv(Val(h, self.contents), b.v)),
                               New(SDiv(Val(h, self.errors), b.v)),
                               CopyXerrors(h, self))))
    ELSE IF /\ CheckConsistencyEdges(h, self, b.r, tolerance)
            /\ Compatible(ProductLens(h, self, b.r))
    THEN Returned(Result(CopyEdges(h, self), DivContents(h, self, b.r),
                         DivErrors(h, self, b.r), CopyXerrors(h, self)))
    ELSE Raised

\* __getitem__ with the slice key lo:hi: views of self's arrays
ResultGetItem(h, self, lo, hi) ==
    Returned(Result(Slice(self.edges, lo, hi, 1), Slice(self.contents, lo, hi, 1),
                    IF IsNone(self.errors) THEN None ELSE Slice(self.errors, lo, hi, 1),
                    IF IsNone(self.xerrors) THEN None ELSE Slice(self.xerrors, lo, hi, 1)))

\* bin_centers
ResultBinCenters(h, self) ==
    LET e == Val(h, self.edges)
        n == IF Len(e) = 0 THEN 0 ELSE Len(e) - 1
        centers == [i \in 1..n |-> Mul(Rat(1, 2), Add(e[i], e[i + 1]))]
    IN IF n < 2 THEN Raised  \* centers[-2]: IndexError
       ELSE Returned(Result(DeepCopy(h, self.edges),
                New(Append(centers,
                           Sub(Mul(Int2Num(2), centers[n]), centers[n - 1]))),
                None, None))

\* integrate
Integrate(h, self, multiply_by_bin) ==
    LET c == Val(h, self.contents)
        body == SubSeq(c, 1, Len(c) - 1)
    IN IF multiply_by_bin
       THEN SumSeq(VMul(body, Ediff1d(Val(h, self.edges))))
       ELSE SumSeq(body)

\* ------------------------------------------------------------------------
\* Result: the transforms (results/result.py)
\* ------------------------------------------------------------------------
\* A transform yields [ok, h, self]: the heap after its in-place writes and
\* the receiver with the arrays it has rebound, as far as the call got
\* before it returned (ok) or raised (~ok).

Done(h, self) == [ok |-> TRUE, h |-> h, self |-> self]
Threw(h, self) == [ok |-> FALSE, h |-> h, self |-> self]

\* a[:-1]
DropLast(a) == SubSeq(a, 1, Len(a) - 1)

\* the first argument of a[:-1].reshape(n1 // nbins, nbins)
ReshapeRows(n1, nbins) == n1 \div nbins

\* whether a[:-1].reshape(n1 // nbins, nbins) is possible (-1 rows: inferred)
CanReshape(a, n1, nbins) ==
    IF ReshapeRows(n1, nbins) < 0 THEN Len(DropLast(a)) % nbins = 0
    ELSE ReshapeRows(n1, nbins) * nbins = Len(DropLast(a))

\* row j of a[:-1].reshape(rows, nbins)
Row(a, j, nbins) == SubSeq(a, (j - 1) * nbins + 1, j * nbins)

\* reshaped.mean(axis=1) or reshaped.sum(axis=1), then np.append(.., [0])
GroupContents(a, nbins, mean) ==
    LET rows == Len(DropLast(a)) \div nbins
    IN Append([j \in 1..rows |->
                  IF mean THEN Div(SumSeq(Row(a, j, nbins)), Int2Num(nbins))
                  ELSE SumSeq(Row(a, j, nbins))],
              Zero)

\* (GroupErrorsLinear: the rows combined like the contents, not in quadrature)
GroupErrorsLinear(a, nbins, mean) == GroupContents(a, nbins, mean)

\* np.sqrt of the mean or sum of the squared rows, then np.append(.., [0])
GroupErrors(a, nbins, mean) ==
    LET rows == Len(DropLast(a)) \div nbins
    IN Append([j \in 1..rows |->
                  IF mean THEN Sqrt(Div(SumSeq(VSq(Row(a, j, nbins))), Int2Num(nbins)))
                  ELSE Sqrt(SumSeq(VSq(Row(a, j, nbins))))],
              Zero)

\* rebin(nbins, mean), nbins >= 1
ResultRebin(h, self, nbins, mean) ==
    LET n1 == LenOf(h, self.edges) - 1
        s1 == [self EXCEPT !.edges = Slice(self.edges, 0, LenOf(h, self.edges), nbins)]
        c == Val(h, self.contents)
        s2 == [s1 EXCEPT !.contents = New(GroupContents(c, nbins, mean))]
        x == Val(h, self.xerrors)
        s3 == IF IsNone(self.xerrors) THEN s2
              ELSE [s2 EXCEPT !.xerrors = New(GroupErrors(x, nbins, mean))]
        e == Val(h, self.errors)
        s4 == IF IsNone(self.errors) THEN s3
              ELSE [s3 EXCEPT !.errors = New(GroupErrors(e, nbins, mean))]
    IN IF ~CanReshape(c, n1, nbins) THEN Threw(h, s1)
       ELSE IF ~IsNone(self.xerrors) /\ ~CanReshape(x, n1, nbins) THEN Threw(h, s2)
       ELSE IF ~IsNone(self.errors) /\ ~CanReshape(e, n1, nbins) THEN Threw(h, s3)
       ELSE Done(h, s4)

\* rescale_edges(factor, rescale_contents): four in-place updates
ResultRescaleEdges(h, self, factor, rescale_contents) ==
    LET h1 == Store(h, self.edges, SMul(Val(h, self.edges), factor))
        h2 == IF IsNone(self.xerrors) THEN h1
              ELSE Store(h1, self.xerrors, SMul(Val(h1, self.xerrors), factor))
        h3 == IF ~rescale_contents THEN h2
              ELSE Store(h2, self.contents, SDiv(Val(h2, self.contents), factor))
        h4 == IF ~rescale_contents \/ IsNone(self.errors) THEN h3
              ELSE Store(h3, self.errors, SDiv(Val(h3, self.errors), factor))
    IN Done(h4, self)

\* rescale_errors(factor)
ResultRescaleErrors(h, self, factor) ==
    IF IsNone(self.errors) THEN Done(h, self)
    ELSE Done(h, [self EXCEPT !.errors = New(SMul(Val(h, self.errors), factor))])

\* new_bin_edge of append_bin: edge is None or a number
NewBinEdge(e, edge) ==
    IF ~IsNone(edge) /\ ~IsZero(edge) THEN edge
    ELSE Sub(Mul(Int2Num(2), e[Len(e)]), e[Len(e) - 1])

\* append_bin(edge, content, error, xerror)
ResultAppendBin(h, self, edge, content, error, xerror) ==
    LET e == Val(h, self.edges)
        s1 == [self EXCEPT !.edges = New(Append(e, NewBinEdge(e, edge))),
                           !.contents = New(Append(Val(h, self.contents), content))]
        s2 == IF IsNone(self.errors) THEN s1
              ELSE [s1 EXCEPT !.errors = New(Append(Val(h, self.errors), error))]
        s3 == IF IsNone(self.xerrors) THEN s2
              ELSE [s2 EXCEPT !.xerrors = New(Append(Val(h, self.xerrors), error))]
    IN IF (IsNone(edge) \/ IsZero(edge)) /\ Len(e) < 2
       THEN Threw(h, self)  \* self.edges[-2]: IndexError
       ELSE Done(h, s3)

\* (MaskedInclusive: the mask taken with <= instead of <)
MaskedInclusive(a, c, threshold) ==
    [i \in 1..Len(a) |-> IF Le(c[i], threshold) THEN Zero ELSE a[i]]

\* the elements of a where the mask chop_indices holds, set to 0
Masked(a, c, threshold) ==
    [i \in 1..Len(a) |-> IF Lt(c[i], threshold) THEN Zero ELSE a[i]]

\* chop(threshold)
ResultChop(h, self, threshold) ==
    LET c == Val(h, self.contents)
        h1 == Store(h, self.contents, Masked(c, c, threshold))
    IN IF IsNone(self.errors) THEN Threw(h1, self)  \* None[mask] = 0.: TypeError
       ELSE IF LenOf(h, self.errors) # Len(c) THEN Threw(h1, self)  \* IndexError
       ELSE Done(Store(h1, self.errors, Masked(Val(h1, self.errors), c, threshold)),
                 self)

\* bin_sizes of divide_by_bin_size and multiply_by_bin_size; pad is a string
BinSizes(e, pad) ==
    IF pad = "first" THEN <<Int2Num(1)>> \o Ediff1d(e)
    ELSE Append(Ediff1d(e), Int2Num(1))

\* whether the in-place a op= b keeps a's shape
InPlaceOk(m, n) == n = m \/ n = 1

\* divide_by_bin_size(pad)
ResultDivideByBinSize(h, self, pad) ==
    LET bin_sizes == BinSizes(Val(h, self.edges), pad)
        h1 == Store(h, self.contents, VDiv(Val(h, self.contents), bin_sizes))
    IN IF pad \notin {"first", "last"} THEN Threw(h, self)
       ELSE IF ~InPlaceOk(LenOf(h, self.contents), Len(bin_sizes)) THEN Threw(h, self)
       ELSE IF IsNone(self.errors) THEN Threw(h1, self)  \* None /= array: TypeError
       ELSE IF ~InPlaceOk(LenOf(h, self.errors), Len(bin_sizes)) THEN Threw(h1, self)
       ELSE Done(Store(h1, self.errors, VDiv(Val(h1, self.errors), bin_sizes)), self)

\* multiply_by_bin_size(pad)
ResultMultiplyByBinSize(h, self, pad) ==
    LET bin_sizes == BinSizes(Val(h, self.edges), pad)
        h1 == Store(h, self.contents, VMul(Val(h, self.contents), bin_sizes))
    IN IF pad \notin {"first", "last"} THEN Threw(h, self)
       ELSE IF ~InPlaceOk(LenOf(h, self.contents), Len(bin_sizes)) THEN Threw(h, self)
       ELSE IF IsNone(self.errors) THEN Threw(h1, self)  \* None *= array: TypeError
       ELSE IF ~InPlaceOk(LenOf(h, self.errors), Len(bin_sizes)) THEN Threw(h1, self)
       ELSE Done(Store(h1, self.errors, VMul(Val(h1, self.errors), bin_sizes)), self)

\* ------------------------------------------------------------------------
\* the generic line parser (results/txt.py) and the CSV tokenizer
\* (datasources/txt.py)
\* ------------------------------------------------------------------------
\* A line is a sequence of characters; a tokenizer call yields [ok, parsed,
\* kind, names]: parsed is None or a tuple of floats when it returns (ok),
\* kind is the exception and names whether its message quotes the line
\* when it raises.

Whitespace == {" ", "\t", "\n"}

\* str.strip()
RECURSIVE LStrip(_)
LStrip(s) == IF Len(s) > 0 /\ Head(s) \in Whitespace THEN LStrip(Tail(s)) ELSE s
RECURSIVE RStrip(_)
RStrip(s) ==
    IF Len(s) > 0 /\ s[Len(s)] \in Whitespace THEN RStrip(SubSeq(s, 1, Len(s) - 1))
    ELSE s
Strip(s) == RStrip(LStrip(s))

\* stripped[:comment_index], comment_index the index of the first comment
\* character or None
NonComment(s, comment_chars) ==
    LET hits == {i \in 1..Len(s) : s[i] \in comment_chars}
    IN IF hits = {} THEN s
       ELSE SubSeq(s, 1, (CHOOSE i \in hits : \A j \in hits : i <= j) - 1)

\* re.split('[' + delimiter_chars + ']+', s)
RECURSIVE SplitFrom(_, _, _, _, _)
SplitFrom(s, delims, i, cur, acc) ==
    IF i > Len(s) THEN Append(acc, cur)
    ELSE IF s[i] \in delims
    THEN (IF i > 1 /\ s[i - 1] \in delims THEN SplitFrom(s, delims, i + 1, cur, acc)
          ELSE SplitFrom(s, delims, i + 1, <<>>, Append(acc, cur)))
    ELSE SplitFrom(s, delims, i + 1, Append(cur, s[i]), acc)
ReSplit(s, delims) == SplitFrom(s, delims, 1, <<>>, <<>>)

\* float(token) for a token of decimal digits; any other token of the
\* model's alphabet (the empty one, one holding a comment character) raises
\* ValueError
Digits == {"0", "1", "2", "3", "4", "5", "6", "7", "8", "9"}
DigitVal(c) ==
    CASE c = "0" -> 0 [] c = "1" -> 1 [] c = "2" -> 2 [] c = "3" -> 3 [] c = "4" -> 4
      [] c = "5" -> 5 [] c = "6" -> 6 [] c = "7" -> 7 [] c = "8" -> 8 [] c = "9" -> 9
RECURSIVE Decimal(_)
Decimal(t) ==
    IF Len(t) = 0 THEN 0 ELSE 10 * Decimal(SubSeq(t, 1, Len(t) - 1)) + DigitVal(t[Len(t)])
FloatOk(t) == Len(t) > 0 /\ \A i \in 1..Len(t) : t[i] \in Digits
Float(t) == Int2Num(Decimal(t))

Yields(parsed) == [ok |-> TRUE, parsed |-> parsed, kind |-> "", names |-> FALSE]
Throws(kind, names) == [ok |-> FALSE, parsed |-> None, kind |-> kind, names |-> names]

\* CSVParser.__call__
CSVParserCall(p, line) ==
    LET stripped == Strip(line)
        non_comment == NonComment(stripped, p.comment_chars)
        splitted == ReSplit(non_comment, p.delimiter_chars)
        cols == p.column_indices
        OutOfRange(k) == cols[k] >= Len(splitted)
        bad == {k \in 1..Len(cols) : OutOfRange(k) \/ ~FloatOk(splitted[cols[k] + 1])}
        first == CHOOSE k \in bad : \A j \in bad : k <= j
    IN IF \A i \in 1..Len(splitted) : splitted[i] = <<>> THEN Yields(None)
       ELSE IF bad = {}
       THEN Yields([k \in 1..Len(cols) |-> Float(splitted[cols[k] + 1])])
       ELSE IF OutOfRange(first) THEN Throws("IndexError", TRUE)
       ELSE Throws("ValueError", FALSE)

\* a tokenizer of the caller's, of the form TXTDataSource documents: None
\* for a line of fewer than two fields, else the tuple of its first fields,
\* four at most, as floats
FieldsParserCall(p, line) ==
    LET fields == SelectSeq(ReSplit(Strip(line), Whitespace), LAMBDA t : t # <<>>)
        taken == SubSeq(fields, 1, IF Len(fields) > 4 THEN 4 ELSE Len(fields))
    IN IF Len(fields) < 2 THEN Yields(None)
       ELSE IF \E i \in 1..Len(taken) : ~FloatOk(taken[i]) THEN Throws("ValueError", FALSE)
       ELSE Yields([i \in 1..Len(taken) |-> Float(taken[i])])

\* self.parser(line)
Tokenize(p, line) ==
    IF p.k = "csv" THEN CSVParserCall(p, line) ELSE FieldsParserCall(p, line)

\* `not parsed`: None, or an empty tuple
Falsy(parsed) == parsed = None \/ parsed = <<>>

\* n_tokens after `if n_tokens is None: n_tokens = len(parsed)`
\* (FixTokensAnew: n_tokens set from every line)
FixTokensAnew(tokens, parsed) == <<Len(parsed)>>
FixTokens(tokens, parsed) == IF tokens = <<>> THEN <<Len(parsed)>> ELSE tokens

\* np.array(l) if l else None
OptionalArray(l) == IF l = <<>> THEN None ELSE New(l)

\* the Result built from the four lists
\* (AssembleSwapped: eys and exs the wrong way round)
AssembleSwapped(x, y, ey, ex) ==
    Result(New(x), New(y), OptionalArray(ex), OptionalArray(ey))
Assemble(x, y, ey, ex) ==
    Result(New(x), New(y), OptionalArray(ey), OptionalArray(ex))

\* an exception of result(), text the lines its message quotes
Error(kind, text) == [k |-> "error", kind |-> kind, text |-> text]

\* one iteration of `for line in f`
ReadLine ==
    /\ pc = "reading"
    /\ pos < Len(file)
    /\ LET line == file[pos + 1]
           t == Tokenize(parser, line)
           tokens == FixTokens(n_tokens, t.parsed)
           n == tokens[1]
           Fail(e) == /\ pc' = "raised"
                      /\ raised' = e
                      /\ UNCHANGED <<pos, xs, ys, eys, exs>>
       IN IF ~t.ok
          THEN Fail(Error(t.kind, IF t.names THEN <<line>> ELSE <<>>))
               /\ UNCHANGED n_tokens
          ELSE IF Falsy(t.parsed)
          THEN /\ pos' = pos + 1
               /\ UNCHANGED <<xs, ys, eys, exs, n_tokens, pc, raised>>
          ELSE IF Len(t.parsed) # n
          THEN Fail(Error("Exception", <<line>>)) /\ n_tokens' = tokens
          ELSE IF n \notin {2, 3, 4}
          THEN Fail(Error("UnboundLocalError", <<>>)) /\ n_tokens' = tokens
          ELSE /\ pos' = pos + 1
               /\ n_tokens' = tokens
               /\ xs' = Append(xs, t.parsed[1])
               /\ ys' = Append(ys, t.parsed[2])
               /\ eys' = IF n >= 3 THEN Append(eys, t.parsed[3]) ELSE eys
               /\ exs' = IF n = 4 THEN Append(exs, t.parsed[4]) ELSE exs
               /\ UNCHANGED <<pc, raised>>
    /\ UNCHANGED <<file, parser, returned, resultVars, parserVars>>

\* the check of the lists' lengths after the loop
LengthsConsistent(x, y, ey, ex) ==
    ~ \/ Len(x) # Len(y)
      \/ ey # <<>> /\ Len(y) # Len(ey)
      \/ ex # <<>> /\ Len(ex) # Len(x)

\* the end of the loop and the rest of result()
Finish ==
    /\ pc = "reading"
    /\ pos = Len(file)
    /\ IF LengthsConsistent(xs, ys, eys, exs)
       THEN /\ pc' = "returned"
            /\ returned' = Assemble(xs, ys, eys, exs)
            /\ UNCHANGED raised
       ELSE /\ pc' = "raised"
            /\ raised' = Error("Exception", <<>>)
            /\ UNCHANGED returned
    /\ UNCHANGED <<file, parser, pos, xs, ys, eys, exs, n_tokens, resultVars, parserVars>>

\* lines per file
MaxLines == 3

\* the lines files are made of, without their newline
LineSet ==
    { <<"1", " ", "2">>,
      <<"2", " ", "1", " ", "1">>,
      <<"1", " ", "2", " ", "1", " ", "2">>,
      <<>>,
      <<" ", "\t">>,
      <<" ", "#", " ", "1", " ", "2">>,
      <<"2", " ", "2", " ", "1", " ", "2", " ", "#", "1">>,
      <<" ", "1", "2", "\t", "1", " ", "@", "2", " ", "2">>,
      <<"1">> }

Files ==
    UNION {[1..n -> LineSet] : n \in 0..MaxLines}

\* CSVParser after __init__, with the default comment_chars and
\* delimiter_chars of CSVDataSource
CSVParser(column_indices) ==
    [k |-> "csv", column_indices |-> column_indices,
     comment_chars |-> {"#", "@"}, delimiter_chars |-> {" ", "\t"}]
FieldsParser == [k |-> "fields"]

Parsers ==
    {CSVParser(<<0, 1>>), CSVParser(<<0, 1, 2>>), CSVParser(<<1, 0, 2, 3>>),
     FieldsParser}

\* no TXTResult at work
TxtIdle ==
    /\ file = <<>>
    /\ parser = None
    /\ pos = 0
    /\ xs = <<>> /\ ys = <<>> /\ eys = <<>> /\ exs = <<>>
    /\ n_tokens = <<>>
    /\ pc = "idle"
    /\ returned = None
    /\ raised = None

\* ------------------------------------------------------------------------
\* the MCTAL parser (results/mcnp.py)
\* ------------------------------------------------------------------------
\* Offsets in the file (f.tell(), f.seek()) are counted in lines.

SEARCH_TALLY == 0
SEARCH_F == 1
READ_F == 2
SEARCH_X == 3
READ_X == 4
SEARCH_ZONE == 5
SEARCH_VALS == 6
READ_VALS == 7

\* str.lower() of one character
Lower(c) ==
    CASE c = "A" -> "a" [] c = "C" -> "c" [] c = "E" -> "e" [] c = "F" -> "f"
      [] c = "L" -> "l" [] c = "M" -> "m" [] c = "S" -> "s" [] c = "T" -> "t"
      [] c = "U" -> "u" [] c = "V" -> "v" [] c = "Y" -> "y" [] c = "H" -> "h"
      [] c = "N" -> "n" [] c = "O" -> "o" [] c = "P" -> "p" [] c = "R" -> "r"
      [] c = "X" -> "x" [] OTHER -> c

\* the longest run of characters of the set that s has from index i on
RECURSIVE Run(_, _, _)
Run(s, i, set) ==
    IF i <= Len(s) /\ s[i] \in set THEN <<s[i]>> \o Run(s, i + 1, set) ELSE <<>>

\* whether s has the word at index i, letter case ignored (re.I)
HasWord(s, i, word) ==
    /\ Len(s) >= i + Len(word) - 1
    /\ \A j \in 1..Len(word) : Lower(s[i + j - 1]) = word[j]

\* ' +([0-9]+)' matched at index i: the digits of the group, <<>> if no match
SpacesDigits(s, i) ==
    LET spaces == Run(s, i, {" "})
    IN IF spaces = <<>> THEN <<>> ELSE Run(s, i + Len(spaces), Digits)

\* re.match('tally +([0-9]+)', line, re.I), re.match('f +([0-9]+)', line,
\* re.I): the digits of group 1, <<>> if no match
MatchTally(line) ==
    IF HasWord(line, 1, <<"t", "a", "l", "l", "y">>) THEN SpacesDigits(line, 6) ELSE <<>>
MatchF(line) ==
    IF HasWord(line, 1, <<"f">>) THEN SpacesDigits(line, 2) ELSE <<>>

\* re.match('([usmcet][tc]?) +([0-9]+)', line, re.I): the digits of group 2
MatchX(line) ==
    IF Len(line) = 0 \/ Lower(line[1]) \notin {"u", "s", "m", "c", "e", "t"} THEN <<>>
    ELSE IF Len(line) >= 2 /\ Lower(line[2]) \in {"t", "c"} THEN SpacesDigits(line, 3)
    ELSE SpacesDigits(line, 2)

\* re.match('vals', line, re.I)
MatchVals(line) == HasWord(line, 1, <<"v", "a", "l", "s">>)

\* re.split(' +', line.strip())
SplitLine(line) == ReSplit(Strip(line), {" "})

\* map(int, splitted), map(float, splitted): whether it raises ValueError,
\* and the list it yields
AllNumbers(splitted) == \A i \in 1..Len(splitted) : FloatOk(splitted[i])
Ints(splitted) == [i \in 1..Len(splitted) |-> Decimal(splitted[i])]
Floats(splitted) == [i \in 1..Len(splitted) |-> Float(splitted[i])]

\* ' '.join(tokens)
RECURSIVE Join(_)
Join(tokens) ==
    IF Len(tokens) = 0 THEN <<>>
    ELSE IF Len(tokens) = 1 THEN tokens[1]
    ELSE tokens[1] \o <<" ">> \o Join(Tail(tokens))

\* l[m:] for m < 0: the last -m elements, all of l if it has fewer
FromEnd(l, m) == IF -m >= Len(l) THEN l ELSE SubSeq(l, Len(l) + m + 1, Len(l))

\* l[::2] and l[1::2]
Evens(l) == [i \in 1..((Len(l) + 1) \div 2) |-> l[2 * i - 1]]
Odds(l) == [i \in 1..(Len(l) \div 2) |-> l[2 * i]]

\* l[:n] and l[1:n] for n >= 0
UpTo(l, n) == SubSeq(l, 1, IF n < Len(l) THEN n ELSE Len(l))
\* (KeepFromStart: l[0:n-1] in the place of l[1:n])
KeepFromStart(l, n) == UpTo(l, n - 1)
Keep(l, n) == SubSeq(l, 2, IF n < Len(l) THEN n ELSE Len(l))

\* zones.index(zone_number), 0 where it raises ValueError; counted from 1
IndexOf(l, v) ==
    IF \E i \in 1..Len(l) : l[i] = v
    THEN CHOOSE i \in 1..Len(l) : l[i] = v /\ \A j \in 1..(i - 1) : l[j] # v
    ELSE 0

\* must_skip as SEARCH_VALS sets it
MustSkip(index, nvals) == 2 * index * (nvals + 1)

\* MCTALResult.parse(): start_dict
TallyLines(f) == {i \in 1..Len(f) : MatchTally(f[i]) # <<>>}
TallyNumbers(f) == {Decimal(MatchTally(f[i])) : i \in TallyLines(f)}
Parse(f) ==
    [t \in TallyNumbers(f) |->
        CHOOSE i \in TallyLines(f) :
            /\ Decimal(MatchTally(f[i])) = t
            /\ \A j \in TallyLines(f) : Decimal(MatchTally(f[j])) = t => j <= i]

\* the locals of extract_result the first chain of branches works on
Locals(st, zs, nz, zi, nv, ms, x, line) ==
    [ok |-> TRUE, state |-> st, zones |-> zs, n_zones |-> nz, zone_index |-> zi,
     n_vals |-> nv, must_skip |-> ms, xs |-> x, line |-> line]

\* the branches of `if state == ...: elif ...`, one per state; l.ok becomes
\* FALSE where the branch raises ValueError
SearchF(l) ==
    LET digits == MatchF(l.line)
    IN IF digits # <<>> /\ Decimal(digits) > 0
       THEN [l EXCEPT !.n_zones = Decimal(digits), !.state = READ_F, !.zones = <<>>]
       ELSE l

ReadF(l, zone_number) ==
    LET splitted == SplitLine(l.line)
        all == l.zones \o Ints(splitted)
    IN IF ~AllNumbers(splitted) THEN [l EXCEPT !.ok = FALSE]
       ELSE IF Len(all) < l.n_zones THEN [l EXCEPT !.zones = all]
       ELSE IF IndexOf(all, zone_number) = 0 THEN [l EXCEPT !.zones = all, !.ok = FALSE]
       ELSE [l EXCEPT !.zones = all, !.zone_index = IndexOf(all, zone_number) - 1,
                      !.state = SEARCH_X]

SearchX(l) ==
    LET digits == MatchX(l.line)
    IN IF digits # <<>> /\ Decimal(digits) - 1 > 0
       THEN [l EXCEPT !.n_vals = Decimal(digits) - 1, !.state = READ_X]
       ELSE IF digits # <<>> THEN [l EXCEPT !.n_vals = Decimal(digits) - 1]
       ELSE l

ReadX(l) ==
    LET splitted == SplitLine(l.line)
        all == l.xs \o Floats(splitted)
    IN IF ~AllNumbers(splitted) THEN [l EXCEPT !.ok = FALSE]
       ELSE IF Len(all) >= l.n_vals
       THEN [l EXCEPT !.xs = UpTo(all, l.n_vals), !.state = SEARCH_VALS]
       ELSE [l EXCEPT !.xs = all]

\* (SearchValsToRead: the state after the vals marker is READ_VALS)
SearchValsToRead(l) ==
    IF MatchVals(l.line)
    THEN [l EXCEPT !.must_skip = MustSkip(l.zone_index, l.n_vals), !.state = READ_VALS]
    ELSE l

SearchVals(l) ==
    IF MatchVals(l.line)
    THEN [l EXCEPT !.must_skip = MustSkip(l.zone_index, l.n_vals), !.state = SEARCH_ZONE]
    ELSE l

SearchZone(l) ==
    LET splitted == SplitLine(l.line)
        left == l.must_skip - Len(splitted)
    IN IF left < 0
       THEN [l EXCEPT !.must_skip = left, !.line = Join(FromEnd(splitted, left)),
                      !.state = READ_VALS]
       ELSE [l EXCEPT !.must_skip = left]

\* the first chain of branches: READ_VALS has no branch in it
Chain(l, zone_number) ==
    CASE l.state = SEARCH_F -> SearchF(l)
      [] l.state = READ_F -> ReadF(l, zone_number)
      [] l.state = SEARCH_X -> SearchX(l)
      [] l.state = READ_X -> ReadX(l)
      [] l.state = SEARCH_VALS -> SearchVals(l)
      [] l.state = SEARCH_ZONE -> SearchZone(l)
      [] OTHER -> l

\* `if state == self.READ_VALS:` on the line the chain left: [ok, ys, eys,
\* brk], brk where the loop is left through break
ReadVals(line, y, ey, nvals) ==
    LET stripped == Strip(line)
        splitted == ReSplit(stripped, {" "})
        floats == Floats(splitted)
        y2 == y \o Evens(floats)
        ey2 == ey \o Odds(floats)
    IN IF stripped = <<>> THEN [ok |-> TRUE, ys |-> y, eys |-> ey, brk |-> FALSE]
       ELSE IF ~AllNumbers(splitted) THEN [ok |-> FALSE, ys |-> y, eys |-> ey, brk |-> FALSE]
       ELSE IF Len(y2) >= nvals + 1
       THEN [ok |-> TRUE, ys |-> Keep(y2, nvals), eys |-> Keep(ey2, nvals), brk |-> TRUE]
       ELSE [ok |-> TRUE, ys |-> y2, eys |-> ey2, brk |-> FALSE]

\* what the scan has not done yet
NotSeen == [under |-> <<>>, left |-> "", ys |-> <<>>, eys |-> <<>>, vals_at |-> 0]

\* no MCTALResult at work
MctalIdle ==
    /\ request = None
    /\ start_dict = <<>>
    /\ result_dict = <<>>
    /\ state = None /\ zones = None /\ n_zones = None /\ zone_index = None
    /\ n_vals = None /\ must_skip = None
    /\ seen = NotSeen
    /\ answers = <<>>

\* ------------------------------------------------------------------------
\* the Tripoli-4 text parser (results/t4.py)
\* ------------------------------------------------------------------------
\* A line of a Tripoli-4 listing is a sequence whose first element may be
\* one of the marker texts below, taken as a whole; the rest are characters.
\* Offsets in the file (f.tell()) are counted in lines.

edition_start_regex == " RESULTS ARE GIVEN FOR SOURCE INTENSITY"
score_name_regex == "SCORE NAME : "
score_start_regex == "RESPONSE FUNCTION : "
region_start_regex == "\t scoring mode :"
region_end_regex == "number of batches used: "
edition_end_regex == " simulation time (s)"

\* Python values that are compared across types: 'last', an int, None
PyStr(v) == [k |-> "str", v |-> v]
PyInt(v) == [k |-> "int", v |-> v]
PyBool(v) == [k |-> "bool", v |-> v]
PyEq(a, b) == a.k = b.k /\ (a.k = "none" \/ a.v = b.v)

\* re.match of a marker text
Matches(regex, line) == Len(line) > 0 /\ line[1] = regex

\* group 1 of score_name_regex, (.+), and of region_end_regex, (\d+); <<>>
\* where the regex does not match
NameGroup(line) ==
    IF Matches(score_name_regex, line)
    THEN SelectSeq(Tail(line), LAMBDA c : c # "\n") ELSE <<>>
DigitsGroup(line) ==
    IF Matches(region_end_regex, line) THEN Run(line, 2, Digits) ELSE <<>>

\* the locals and fields one iteration of the loop of parse_endpoints works
\* on; ok becomes FALSE where it raises, brk TRUE where it breaks
Endpoints(e, names, se, rs, b) ==
    [ok |-> TRUE, brk |-> FALSE, endpoints |-> e, score_names |-> names,
     score_endpoints |-> se, region_start |-> rs, this_batch_num |-> b]

\* the branch of edition_end_regex
EditionEnd(l, wanted) ==
    [l EXCEPT !.endpoints = Append(@, l.score_endpoints),
              !.brk = PyEq(wanted, l.this_batch_num)]

\* one iteration of `for line in iter(f.readline, '')`; tell is f.tell()
EndpointsStep(l, line, tell, wanted) ==
    IF Matches(edition_start_regex, line)
    THEN [l EXCEPT !.score_endpoints = <<>>, !.endpoints = <<>>, !.score_names = <<>>]
    ELSE IF Matches(score_start_regex, line)
    THEN [l EXCEPT !.endpoints = IF Len(l.score_endpoints) # 0
                                 THEN Append(@, l.score_endpoints) ELSE @,
                   !.score_endpoints = <<>>,
                   !.score_names = Append(@, <<>>)]
    ELSE IF NameGroup(line) # <<>>
    THEN (IF l.score_names = <<>> THEN [l EXCEPT !.ok = FALSE]  \* IndexError
          ELSE [l EXCEPT !.score_names[Len(l.score_names)] = NameGroup(line)])
    ELSE IF Matches(region_start_regex, line)
    THEN [l EXCEPT !.region_start = PyInt(tell)]
    ELSE IF DigitsGroup(line) # <<>>
    THEN [l EXCEPT !.this_batch_num = PyInt(Decimal(DigitsGroup(line))),
                   !.score_endpoints = Append(@, <<l.region_start, PyInt(tell)>>)]
    ELSE IF Matches(edition_end_regex, line)
    THEN EditionEnd(l, wanted)
    ELSE l

\* { name: index for (index, name) in enumerate(score_names) }
ScoreNumbers(names) ==
    [n \in {names[i] : i \in 1..Len(names)} |->
        (CHOOSE i \in 1..Len(names) :
            names[i] = n /\ \A j \in 1..Len(names) : names[j] = n => j <= i) - 1]

\* re.match of dataline_regex: five numeric fields, the first two set apart
\* by " - " and the others by tabs, up to the end of the line
DataFields == {1, 3, 5, 7, 9}
Literals == {"0", "1", "1.0", "2", "3", "5", "7", "10", "20"}
MatchesData(line) ==
    /\ Len(line) = 10
    /\ \A i \in DataFields : line[i] \in Literals
    /\ line[2] = " - " /\ line[4] = "\t" /\ line[6] = "\t" /\ line[8] = "\t"
    /\ line[10] = "\n"

\* float(literal)
FloatOf(s) ==
    CASE s = "0" -> Zero
      [] s = "1" -> Int2Num(1)
      [] s = "1.0" -> Int2Num(1)
      [] s = "2" -> Int2Num(2)
      [] s = "3" -> Int2Num(3)
      [] s = "5" -> Int2Num(5)
      [] s = "7" -> Int2Num(7)
      [] s = "10" -> Int2Num(10)
      [] s = "20" -> Int2Num(20)

\* the lines of f read after seek(start), up to the one that ends at end
RECURSIVE DataRows(_, _, _)
DataRows(f, start, end) ==
    IF start >= Len(f) \/ start + 1 >= end THEN <<>>
    ELSE (IF MatchesData(f[start + 1])
          THEN << [xlo |-> f[start + 1][1], xhi |-> f[start + 1][3],
                   val |-> f[start + 1][5], err |-> f[start + 1][7]] >>
          ELSE <<>>)
         \o DataRows(f, start + 1, end)

\* an entry of edges, contents and errors
Entry(edge, content, error) == [edge |-> edge, content |-> content, error |-> error]

\* the entries the loop over enumerate(xlo) appends for row i (from 1)
Bins(rows, i) ==
    IF i < Len(rows)
    THEN <<Entry(FloatOf(rows[i].xlo), FloatOf(rows[i].val),
                 Mul(Mul(FloatOf(rows[i].err), FloatOf(rows[i].val)), Rat(1, 100)))>>
         \o (IF rows[i + 1].xlo # rows[i].xhi
             THEN <<Entry(FloatOf(rows[i].xhi), Zero, Zero)>> ELSE <<>>)
    ELSE <<Entry(FloatOf(rows[i].xhi), Zero, Zero)>>

RECURSIVE Binned(_, _)
Binned(rows, i) == IF i > Len(rows) THEN <<>> ELSE Bins(rows, i) \o Binned(rows, i + 1)

\* T4TXTResult.result(score, region_rank), score a str or an int; the
\* outcome is [ok, kind, ret, span]
T4TxtResult(f, ends, numbers, score, region_rank) ==
    LET known == score.k = "int" \/ score.v \in DOMAIN numbers
        index == IF score.k = "int" THEN score.v ELSE numbers[score.v]
        inside == index < Len(ends) /\ region_rank < Len(ends[index + 1])
        range == ends[index + 1][region_rank + 1]
        rows == DataRows(f, range[1].v, range[2].v)
        bins == Binned(rows, 1)
    IN IF ~known THEN [ok |-> FALSE, kind |-> "ValueError", ret |-> None, span |-> None]
       ELSE IF ~inside
       THEN [ok |-> FALSE, kind |-> "IndexError", ret |-> None, span |-> None]
       ELSE IF IsNone(range[1])
       THEN [ok |-> FALSE, kind |-> "TypeError", ret |-> None, span |-> range]
       ELSE [ok |-> TRUE, kind |-> "",
             ret |-> Result(New([i \in 1..Len(bins) |-> bins[i].edge]),
                            New([i \in 1..Len(bins) |-> bins[i].content]),
                            New([i \in 1..Len(bins) |-> bins[i].error]), None),
             span |-> range]

\* no T4TXTResult at work
T4TxtIdle ==
    /\ batch_num = None
    /\ endpoints = <<>>
    /\ score_numbers = <<>>
    /\ score_names = <<>>
    /\ score_endpoints = <<>>
    /\ region_start = None
    /\ this_batch_num = None
    /\ span = None

\* ------------------------------------------------------------------------
\* T4XMLResult: the Tripoli-4 XML output (results/t4.py)
\* ------------------------------------------------------------------------
\* soup is the tree of the file, as far as the class reads it:
\*   list_decoupage     the <decoupage> children: [name, string]
\*   scores_definition  the <score> children: [name, id, nrj_dec, tps_dec,
\*                      gelement_def], tps_dec None when the attribute is absent,
\*                      gelement_def the <gelement_def> children [id, zone_type,
\*                      div_value, nx, ny, nz]
\*   batches            the children of <batches> in file order: [tag, num,
\*                      result], tag "batch" (num is its num attribute) or
\*                      "mean_results" (num is its batchnum attribute), result the
\*                      <result> or <mean_result> children [scoreid, gelement],
\*                      gelement the <gelement> children [id, string, val, sd]
\* A string of numbers is the sequence of its blank-separated tokens, as the
\* text parser has them.

\* find(...): the first child that passes, 0 for None
FirstWith(children, Test(_)) ==
    IF \E i \in 1..Len(children) : Test(children[i])
    THEN CHOOSE i \in 1..Len(children) :
            Test(children[i]) /\ \A j \in 1..(i - 1) : ~Test(children[j])
    ELSE 0

\* find_all(...): the children that pass, in file order
AllWith(children, Test(_)) ==
    LET pass == {i \in 1..Len(children) : Test(children[i])}
    IN [n \in 1..Cardinality(pass) |->
           CHOOSE i \in pass : Cardinality({j \in pass : j < i}) = n - 1]

\* np.fromstring(string, sep=' ')
FromString(string) == Floats(string)

\* list(reversed(l))
Reversed(l) == [i \in 1..Len(l) |-> l[Len(l) + 1 - i]]

_is_descending_grid(grid) == Lt(grid[2], grid[1])

\* a call that raises an exception of this kind; at is the child of <batches>
\* the call had selected
Fails(kind, at) == [ok |-> FALSE, kind |-> kind, ret |-> None, at |-> at, dbb |-> None]
Selects(at) == [ok |-> TRUE, kind |-> "", at |-> at]
Rejects(kind) == [ok |-> FALSE, kind |-> kind, at |-> 0]

grid_xml(s, name) ==
    LET Named(g) == g.name = name IN FirstWith(s.list_decoupage, Named)

score_xml(s, name) ==
    LET Named(c) == c.name = name IN FirstWith(s.scores_definition, Named)

batch_results_xml(s, num) ==
    IF num.k = "int"
    THEN LET Numbered(b) == b.tag = "batch" /\ b.num = num.v
         IN Selects(FirstWith(s.batches, Numbered))
    ELSE Rejects("ValueError")

mean_results_xml(s, num) ==
    IF PyEq(num, PyStr("last"))
    THEN LET Mean(b) == b.tag = "mean_results"
             all == AllWith(s.batches, Mean)
         IN IF Len(all) = 0 THEN Rejects("IndexError") ELSE Selects(all[Len(all)])
    ELSE IF num.k = "int"
    THEN LET Numbered(b) == b.tag = "mean_results" /\ b.num = num.v
         IN Selects(FirstWith(s.batches, Numbered))
    ELSE Rejects("ValueError")

\* a.reshape(nt, ne, nx, ny, nz)[it, :, i, j, k], for indices from 0
Reshaped(a, ne, nx, ny, nz, it, i, j, k) ==
    [e \in 1..ne |-> a[(((it * ne + (e - 1)) * nx + i) * ny + j) * nz + k + 1]]

\* a[lo:hi] of a freshly built array
Cut(a, lo, hi) ==
    LET top == IF hi < Len(a) THEN hi ELSE Len(a)
    IN IF lo >= top THEN <<>> ELSE SubSeq(a, lo + 1, top)

\* whether a /= b works on an array of m elements and one of n
InPlace(m, n) == n = m \/ n = 1

\* a /= b, elementwise with b broadcast
DivideInPlace(a, b) == [i \in 1..Len(a) |-> Div(a[i], At(b, i))]

\* whether a score_div_value is true in an if
Truthy(v) == ~IsNone(v) /\ ~IsZero(v)

\* val /= width if divide_by_bin, then val /= score_div_value if that is true
Scaling(val, width, score_div_value, by_bin) ==
    LET val1 == IF by_bin THEN DivideInPlace(val, width) ELSE val
    IN IF Truthy(score_div_value) THEN DivideInPlace(val1, <<score_div_value>>)
       ELSE val1

\* mean_result from the reversal of a descending grid on: grid, val_list and
\* sd_list as read from the file, at the <mean_results> they come from
MeanSlice(gelement_def, raw, vals, sds, nt, at, cell, time_step, by_bin) ==
    LET mesh == gelement_def.zone_type = "SPECIAL_MESH"
        score_div_value ==
            IF mesh THEN Int2Num(1)
            ELSE IF Len(gelement_def.div_value) > 0 THEN Float(gelement_def.div_value)
            ELSE None
        nx == gelement_def.nx
        ny == gelement_def.ny
        nz == gelement_def.nz
        ne == Len(raw) - 1
        nvals == (IF mesh THEN nx * ny * nz ELSE 1) * ne
        desc == _is_descending_grid(raw)
        grid == IF desc THEN Reversed(raw) ELSE raw
        val_list == IF desc THEN Reversed(vals) ELSE vals
        sd_list == IF desc THEN Reversed(sds) ELSE sds
        it == time_step
        val == IF mesh
               THEN Reshaped(val_list, ne, nx, ny, nz, it, cell[1], cell[2], cell[3])
               ELSE Cut(val_list, time_step * nvals, (time_step + 1) * nvals)
        sd == IF mesh
              THEN Reshaped(sd_list, ne, nx, ny, nz, it, cell[1], cell[2], cell[3])
              ELSE Cut(sd_list, time_step * nvals, (time_step + 1) * nvals)
        width == Ediff1d(grid)
    IN IF mesh /\ (Len(vals) # nt * ne * nx * ny * nz \/ Len(sds) # nt * ne * nx * ny * nz)
       THEN Fails("ValueError", at)
       ELSE IF mesh /\ ~(it < nt /\ cell[1] < nx /\ cell[2] < ny /\ cell[3] < nz)
       THEN Fails("IndexError", at)
       ELSE IF by_bin /\ ~(InPlace(Len(val), Len(width)) /\ InPlace(Len(sd), Len(width)))
       THEN [Fails("ValueError", at) EXCEPT !.dbb = PyBool(by_bin)]
       ELSE [ok |-> TRUE, kind |-> "",
             ret |-> Result(New(grid),
                            New(Append(Scaling(val, width, score_div_value, by_bin), Zero)),
                            New(Append(Scaling(sd, width, score_div_value, by_bin), Zero)),
                            None),
             at |-> at, dbb |-> PyBool(by_bin)]

\* mean_result from the <mean_results> at place at on: the <gelement> of the
\* score and the region, its val and sd
MeanRead(s, score_id, gelement_def, raw, nt, at, region_id, cell, time_step, by_bin) ==
    LET WithId(g) == g.id = region_id
        ForScore(r) == r.scoreid = score_id
        rx == FirstWith(s.batches[at].result, ForScore)
        ex == FirstWith(s.batches[at].result[rx].gelement, WithId)
        resultxml == s.batches[at].result[rx].gelement[ex]
    IN IF rx = 0 \/ ex = 0 THEN Fails("AttributeError", at)
       ELSE IF Len(raw) < 2 THEN Fails("IndexError", at)
       ELSE MeanSlice(gelement_def, raw, Floats(resultxml.val), Floats(resultxml.sd),
                      nt, at, cell, time_step, by_bin)

\* score_name is a str.  The outcome is [ok, kind, ret, at, dbb]: dbb is what
\* the call assigns to self.divide_by_bin, None if it does not come to it.
mean_result(s, score_name, num, region_id, cell, time_step, by_bin) ==
    LET sc == score_xml(s, score_name)
        score == s.scores_definition[sc]
        score_grid_name == score.nrj_dec
        WithId(g) == g.id = region_id
        gd == FirstWith(score.gelement_def, WithId)
        gx == grid_xml(s, score_grid_name)
        timed == ~IsNone(score.tps_dec)
        tx == grid_xml(s, score.tps_dec.v)
        results == mean_results_xml(s, num)
    IN IF sc = 0 THEN Fails("ValueError", 0)
       ELSE IF gd = 0 THEN Fails("TypeError", 0)
       ELSE IF gx = 0 THEN Fails("AttributeError", 0)
       ELSE IF timed /\ tx = 0 THEN Fails("AttributeError", 0)
       ELSE IF ~results.ok THEN Fails(results.kind, 0)
       ELSE IF results.at = 0 THEN Fails("AttributeError", 0)
       ELSE MeanRead(s, score.id, score.gelement_def[gd],
                     FromString(s.list_decoupage[gx].string),
                     IF timed THEN Len(FromString(s.list_decoupage[tx].string)) - 1 ELSE 1,
                     results.at, region_id, cell, time_step, by_bin)

\* batch_result from the reading of the values on: the grid and the values
\* of the <gelement>, at the <batch> they come from
BatchSlice(gelement_def, grid, whole, at, cell, by_bin) ==
    LET mesh == gelement_def.zone_type = "SPECIAL_MESH"
        score_div_value ==
            IF mesh THEN Int2Num(1)
            ELSE IF Len(gelement_def.div_value) > 0 THEN Float(gelement_def.div_value)
            ELSE None
        nt == 1
        nx == gelement_def.nx
        ny == gelement_def.ny
        nz == gelement_def.nz
        ne == Len(grid) - 1
        result == IF mesh
                  THEN Reshaped(whole, ne, nx, ny, nz, cell[1], cell[2], cell[3], cell[4])
                  ELSE whole
        width == Ediff1d(grid)
    IN IF mesh /\ Len(whole) # nt * ne * nx * ny * nz THEN Fails("ValueError", at)
       ELSE IF mesh /\ ~(cell[1] < nt /\ cell[2] < nx /\ cell[3] < ny /\ cell[4] < nz)
       THEN Fails("IndexError", at)
       ELSE IF by_bin /\ ~InPlace(Len(result), Len(width))
       THEN Fails("ValueError", at)
       ELSE [ok |-> TRUE, kind |-> "",
             ret |-> Result(New(grid),
                            New(Append(Scaling(result, width, score_div_value, by_bin),
                                       Zero)),
                            None, None),
             at |-> at, dbb |-> None]

\* batch_result from the <batch> at place at on
BatchRead(s, score_id, gelement_def, grid, at, region_id, cell, by_bin) ==
    LET WithId(g) == g.id = region_id
        ForScore(r) == r.scoreid = score_id
        rx == FirstWith(s.batches[at].result, ForScore)
        ex == FirstWith(s.batches[at].result[rx].gelement, WithId)
        resultxml == s.batches[at].result[rx].gelement[ex]
    IN IF rx = 0 \/ ex = 0 THEN Fails("AttributeError", at)
       ELSE BatchSlice(gelement_def, grid, FromString(resultxml.string), at, cell, by_bin)

\* score_name is a str
batch_result(s, score_name, num, region_id, cell, by_bin) ==
    LET sc == score_xml(s, score_name)
        score == s.scores_definition[sc]
        score_grid_name == score.nrj_dec
        WithId(g) == g.id = region_id
        gd == FirstWith(score.gelement_def, WithId)
        gx == grid_xml(s, score_grid_name)
        results == batch_results_xml(s, num)
    IN IF sc = 0 THEN Fails("ValueError", 0)
       ELSE IF gd = 0 THEN Fails("TypeError", 0)
       ELSE IF gx = 0 THEN Fails("AttributeError", 0)
       ELSE IF ~results.ok THEN Fails(results.kind, 0)
       ELSE IF results.at = 0 THEN Fails("AttributeError", 0)
       ELSE BatchRead(s, score.id, score.gelement_def[gd],
                      FromString(s.list_decoupage[gx].string), results.at, region_id,
                      cell, by_bin)

\* response_xml(id=...): the <response> of that id, 0 for None
response_xml(s, id) ==
    LET WithId(r) == r.id = id IN FirstWith(s.response_definition, WithId)

\* str.lower() of a string
LowerStr(str) == [i \in 1..Len(str) |-> Lower(str[i])]

\* labels(score_name) on a T4XMLResult whose attribute divide_by_bin is dbb
\* (None: never assigned). The y label is kept as the three parts it is
\* joined from with blanks, the unit as the sequence of its pieces; ' ' in
\* unit is true as soon as a piece after 'source' is added, since each of
\* them starts with a blank.
labels(s, score_name, dbb) ==
    LET sc == score_xml(s, score_name)
        score == s.scores_definition[sc]
        response_id == score.response_id
        rs == response_xml(s, response_id.v)
        response == s.response_definition[rs]
        particle == LowerStr(response.particle)
        response_type == LowerStr(response.type)
        unit0 == <<"source">>
        unit1 == Append(unit0, " cm$^2$")
        unit2 == IF dbb.v THEN Append(unit1, " MeV") ELSE unit1
        unit == IF Len(unit2) > 1 THEN <<"[1/(">> \o unit2 \o <<")]">>
                ELSE <<"[1/">> \o unit2 \o <<"]">>
        ylabel == [particle |-> particle, response_type |-> response_type,
                   unit |-> unit]
        xlabel == IF ~IsNone(score.tps_dec) THEN "time"
                  ELSE IF ~IsNone(score.mu_dec) THEN "$\\mu$"
                  ELSE "energy [MeV]"
        Raises(kind) == [ok |-> FALSE, kind |-> kind, ret |-> None]
    IN IF sc = 0 THEN Raises("TypeError")
       ELSE IF IsNone(response_id) THEN Raises("KeyError")
       ELSE IF rs = 0 THEN Raises("TypeError")
       ELSE IF IsNone(dbb) THEN Raises("AttributeError")
       ELSE [ok |-> TRUE, kind |-> "",
             ret |-> [k |-> "labels", xlabel |-> xlabel, ylabel |-> ylabel]]

\* no T4XMLResult at work
T4XmlIdle ==
    /\ soup = None
    /\ found = 0
    /\ divide_by_bin = None
    /\ asked = <<>>

\* ------------------------------------------------------------------------
\* the caller: a few variables holding Results, and calls on them
\* ------------------------------------------------------------------------

\* edges of the Results a behaviour starts from
MaxLen == 3
\* calls in one behaviour
MaxSteps == 2

Slots == 1..3
Filled == {s \in Slots : ~IsNone(pool[s])}

\* starting edges, by kind: 0,1,2..; 0,2,4..; 1/4,5/4,..; 1,1,1..;
\* 3000,3001,..; 3000+9/64,3001+9/64,..
EdgesOf(kind, n) ==
    [i \in 1..n |->
        CASE kind = "unit" -> Int2Num(i - 1)
          [] kind = "wide" -> Int2Num(2 * (i - 1))
          [] kind = "unitoff" -> Rat(4 * (i - 1) + 1, 4)
          [] kind = "flat" -> Int2Num(1)
          [] kind = "big" -> Int2Num(3000 + i - 1)
          [] kind = "bigoff" -> Rat(64 * (3000 + i - 1) + 9, 64)]

\* starting contents: 1,2,.. or 0,2,0,2,.. and the 0 of the padding bin
ContentsOf(kind, n) ==
    [i \in 1..n |->
        IF i = n THEN Zero
        ELSE IF kind = "ramp" THEN Int2Num(i)
        ELSE Int2Num(2 * ((i + 1) % 2))]

\* starting errors: base, base+1, .. and the 0 of the padding bin
ErrorsOf(base, n) == [i \in 1..n |-> IF i = n THEN Zero ELSE Int2Num(base + i - 1)]

\* starting xerrors: all 1
XerrorsOf(n) == [i \in 1..n |-> Int2Num(1)]

\* which optional arrays a starting Result has
Variants == {"bare", "err", "full"}

Make(ekind, ckind, base, variant, n) ==
    Result(New(EdgesOf(ekind, n)), New(ContentsOf(ckind, n)),
           IF variant = "bare" THEN None ELSE New(ErrorsOf(base, n)),
           IF variant = "full" THEN New(XerrorsOf(n)) ELSE None)

\* the pairs of edges two starting Results have, and the TOLERANCE set
Scenarios ==
    { [e1 |-> "unit", e2 |-> "unit", n2 |-> MaxLen, tol |-> NoTolerance],
      [e1 |-> "unit", e2 |-> "wide", n2 |-> MaxLen, tol |-> NoTolerance],
      [e1 |-> "unit", e2 |-> "unitoff", n2 |-> MaxLen, tol |-> Rat(1, 2)],
      [e1 |-> "big", e2 |-> "bigoff", n2 |-> MaxLen, tol |-> Rat(1, 8)],
      [e1 |-> "flat", e2 |-> "flat", n2 |-> 1, tol |-> NoTolerance] }

\* the values a caller passes
ScalarArgs == {Int2Num(2)}
SliceArgs == {<<0, 1>>, <<1, MaxLen>>}
NbinsArgs == 1..(MaxLen - 1)
EdgeArgs == {None, Zero, Int2Num(5)}
PadArgs == {"first", "last", "middle"}

NoCall == [op |-> "init", a |-> 0, b |-> 0, dst |-> 0, ok |-> TRUE,
           args |-> None, pre |-> None, before |-> None]

\* what the record of a call keeps of the call before it
Earlier == [op |-> last.op, a |-> last.a, ok |-> last.ok, args |-> last.args,
            pre |-> last.pre]

Origin(kind, from, clean) == [kind |-> kind, from |-> from, clean |-> clean]

\* the buffers still referenced, in the order the variables reference them
RefSeq(p, s) ==
    IF IsNone(p[s]) THEN <<>>
    ELSE SelectSeq(<<p[s].edges, p[s].contents, p[s].errors, p[s].xerrors>>,
                   LAMBDA f : f.k = "arr")
RECURSIVE Uniq(_, _)
Uniq(refs, acc) ==
    IF Len(refs) = 0 THEN acc
    ELSE Uniq(Tail(refs),
              IF \E i \in 1..Len(acc) : acc[i] = Head(refs).buf THEN acc
              ELSE Append(acc, Head(refs).buf))

\* garbage collection: drop the buffers no variable references and number
\* the others in the order of reference
Collect(h, p) ==
    LET order == Uniq(RefSeq(p, 1) \o RefSeq(p, 2) \o RefSeq(p, 3), <<>>)
        Id(b) == CHOOSE i \in 1..Len(order) : order[i] = b
        Move(f) == IF f.k = "arr" THEN View(Id(f.buf), f.ix) ELSE f
    IN [h |-> [i \in 1..Len(order) |-> h[order[i]]],
        p |-> [s \in Slots |->
                 IF IsNone(p[s]) THEN None
                 ELSE Result(Move(p[s].edges), Move(p[s].contents),
                             Move(p[s].errors), Move(p[s].xerrors))]]

Snapshot == [s \in Slots |-> ValR(heap, pool[s])]

\* the variable a returned Result is bound to: the last one that is no operand
Target(a, b) == CHOOSE s \in Slots \ {a, b} : \A t \in Slots \ {a, b} : t <= s

Init ==
    \E sc \in Scenarios, v1 \in Variants, v2 \in Variants :
        LET m1 == Materialize(<<>>, Make(sc.e1, "ramp", 1, v1, MaxLen))
            m2 == Materialize(m1.h, Make(sc.e2, "alt", 2, v2, sc.n2))
        IN /\ heap = m2.h
           /\ pool = [s \in Slots |-> IF s = 1 THEN m1.r ELSE IF s = 2 THEN m2.r ELSE None]
           /\ TOLERANCE = sc.tol
           /\ prov = [s \in Slots |-> Origin("init", {}, TRUE)]
           /\ last = NoCall
           /\ steps = 0
           /\ TxtIdle
           /\ MctalIdle
           /\ T4TxtIdle
           /\ T4XmlIdle

\* a parser call is under way: the caller makes no other call meanwhile
Parsing == pc \in {"reading", "left"}

\* a call that returns a new Result (or raises): out is [ok, ret]
Returns(op, a, b, args, out, kind) ==
    LET dst == Target(a, b)
        m == Materialize(heap, out.ret)
        c == IF out.ok THEN Collect(m.h, [pool EXCEPT ![dst] = m.r])
             ELSE [h |-> heap, p |-> pool]
    IN /\ steps < MaxSteps
       /\ ~Parsing
       /\ steps' = steps + 1
       /\ heap' = c.h
       /\ pool' = c.p
       /\ prov' = IF ~out.ok THEN prov
                  ELSE [s \in Slots |->
                          IF s = dst
                          THEN Origin(kind, {a, b} \ {0},
                                      prov[a].clean /\ (b = 0 \/ prov[b].clean))
                          ELSE [prov[s] EXCEPT !.from = @ \ {dst}]]
       /\ last' = [op |-> op, a |-> a, b |-> b, dst |-> IF out.ok THEN dst ELSE 0,
                   ok |-> out.ok, args |-> args, pre |-> Snapshot,
                   before |-> Earlier]
       /\ UNCHANGED <<TOLERANCE, txtVars, parserVars>>

\* a call that transforms its receiver in place: out is [ok, h, self]
Transforms(op, a, args, out) ==
    LET m == Materialize(out.h, out.self)
        c == Collect(m.h, [pool EXCEPT ![a] = m.r])
    IN /\ steps < MaxSteps
       /\ ~Parsing
       /\ steps' = steps + 1
       /\ heap' = c.h
       /\ pool' = c.p
       /\ prov' = [prov EXCEPT ![a].clean = @ /\ out.ok]
       /\ last' = [op |-> op, a |-> a, b |-> 0, dst |-> 0,
                   ok |-> out.ok, args |-> args, pre |-> Snapshot,
                   before |-> Earlier]
       /\ UNCHANGED <<TOLERANCE, txtVars, parserVars>>

\* the right operand b: a variable, or 0 for the Python float v
Right(b, v) == IF b = 0 THEN Scalar(v) ELSE Operand(pool[b])

CallAdd ==
    \E a \in Filled : \E b \in (Filled \ {a}) \cup {0}, v \in ScalarArgs :
        Returns("add", a, b, [v |-> v],
                ResultAdd(heap, pool[a], Right(b, v), TOLERANCE), "arith")

CallSub ==
    \E a \in Filled : \E b \in (Filled \ {a}) \cup {0}, v \in ScalarArgs :
        Returns("sub", a, b, [v |-> v],
                ResultSub(heap, pool[a], Right(b, v), TOLERANCE), "arith")

CallMul ==
    \E a \in Filled : \E b \in (Filled \ {a}) \cup {0}, v \in ScalarArgs :
        Returns("mul", a, b, [v |-> v],
                ResultMul(heap, pool[a], Right(b, v), TOLERANCE), "arith")

CallDiv ==
    \E a \in Filled : \E b \in (Filled \ {a}) \cup {0}, v \in ScalarArgs :
        Returns("div", a, b, [v |-> v],
                ResultDiv(heap, pool[a], Right(b, v), TOLERANCE), "arith")

CallGetItem ==
    \E a \in Filled, key \in SliceArgs :
        Returns("getitem", a, 0, [lo |-> key[1], hi |-> key[2]],
                ResultGetItem(heap, pool[a], key[1], key[2]), "slice")

CallBinCenters ==
    \E a \in Filled :
        Returns("bin_centers", a, 0, None, ResultBinCenters(heap, pool[a]), "centers")

CallRebin ==
    \E a \in Filled, nbins \in NbinsArgs, mean \in BOOLEAN :
        Transforms("rebin", a, [nbins |-> nbins, mean |-> mean],
                   ResultRebin(heap, pool[a], nbins, mean))

CallRescaleEdges ==
    \E a \in Filled, factor \in ScalarArgs, rescale_contents \in BOOLEAN :
        Transforms("rescale_edges", a,
                   [factor |-> factor, rescale_contents |-> rescale_contents],
                   ResultRescaleEdges(heap, pool[a], factor, rescale_contents))

CallRescaleErrors ==
    \E a \in Filled, factor \in ScalarArgs :
        Transforms("rescale_errors", a, [factor |-> factor],
                   ResultRescaleErrors(heap, pool[a], factor))

CallAppendBin ==
    \E a \in Filled, edge \in EdgeArgs :
        Transforms("append_bin", a,
                   [edge |-> edge, content |-> Int2Num(1), error |-> Int2Num(2),
                    xerror |-> Int2Num(3)],
                   ResultAppendBin(heap, pool[a], edge, Int2Num(1), Int2Num(2),
                                   Int2Num(3)))

CallChop ==
    \E a \in Filled, threshold \in ScalarArgs :
        Transforms("chop", a, [threshold |-> threshold],
                   ResultChop(heap, pool[a], threshold))

CallDivideByBinSize ==
    \E a \in Filled, pad \in PadArgs :
        Transforms("divide_by_bin_size", a, [pad |-> pad],
                   ResultDivideByBinSize(heap, pool[a], pad))

CallMultiplyByBinSize ==
    \E a \in Filled, pad \in PadArgs :
        Transforms("multiply_by_bin_size", a, [pad |-> pad],
                   ResultMultiplyByBinSize(heap, pool[a], pad))

Next ==
    \/ CallAdd
    \/ CallSub
    \/ CallMul
    \/ CallDiv
    \/ CallGetItem
    \/ CallBinCenters
    \/ CallRebin
    \/ CallRescaleEdges
    \/ CallRescaleErrors
    \/ CallAppendBin
    \/ CallChop
    \/ CallDivideByBinSize
    \/ CallMultiplyByBinSize

Spec == Init /\ [][Next]_vars

\* TXTResult(file_name, parser).result(), for a file and a tokenizer
InitTxt ==
    /\ heap = <<>>
    /\ pool = [s \in Slots |-> None]
    /\ TOLERANCE = NoTolerance
    /\ prov = [s \in Slots |-> Origin("init", {}, TRUE)]
    /\ last = NoCall
    /\ steps = 0
    /\ \E f \in Files : file = [i \in 1..Len(f) |-> Append(f[i], "\n")]
    /\ parser \in Parsers
    /\ pos = 0
    /\ xs = <<>> /\ ys = <<>> /\ eys = <<>> /\ exs = <<>>
    /\ n_tokens = <<>>
    /\ pc = "reading"
    /\ returned = None
    /\ raised = None
    /\ MctalIdle
    /\ T4TxtIdle
    /\ T4XmlIdle

NextTxt ==
    \/ ReadLine
    \/ Finish

SpecTxt == InitTxt /\ [][NextTxt]_vars

\* ------------------------------------------------------------------------
\* MCTALResult at work: result() calls on one instance
\* ------------------------------------------------------------------------

\* calls of result() that return, in one behaviour
MaxCalls == 2

TallyArgs == {1, 2}
ZoneArgs == {5, 7, 9}

\* the decimal numeral of n, 0 <= n <= 99
DigitChar(d) ==
    CASE d = 0 -> "0" [] d = 1 -> "1" [] d = 2 -> "2" [] d = 3 -> "3" [] d = 4 -> "4"
      [] d = 5 -> "5" [] d = 6 -> "6" [] d = 7 -> "7" [] d = 8 -> "8" [] d = 9 -> "9"
Numeral(n) == IF n < 10 THEN <<DigitChar(n)>> ELSE <<DigitChar(n \div 10), DigitChar(n % 10)>>

\* the lines holding the numerals from, from+1, .., layout[i] of them on
\* line i
RECURSIVE Laid(_, _)
Laid(layout, from) ==
    IF Len(layout) = 0 THEN <<>>
    ELSE <<Join([j \in 1..Head(layout) |-> Numeral(from + j - 1)])>>
         \o Laid(Tail(layout), from + Head(layout))

\* the pieces MCTAL files are made of: the tally line, the zones, the grid,
\* the vals marker and 12 numbers 1..12, value and relative error in turn
TallyPart == << <<"t", "a", "l", "l", "y", " ", "1">> >>
ZoneParts ==
    { << <<"f", " ", "2">>, <<"5", " ", "9">> >>,
      << <<"F", " ", " ", "2">>, <<" ", "5">>, <<"9", " ">> >> }
GridParts ==
    { << <<"c", " ", "1">>, <<"e", " ", "3">>, <<"0", " ", "1", " ", "2">> >>,
      << <<"e", "t", " ", "3">>, <<"0", " ", "1">>, <<"2">> >>,
      << <<"e", " ", "2">>, <<"0", " ", "1">> >> }
ValsPart == << <<"v", "a", "l", "s">> >>
Layouts ==
    { <<12>>, <<6, 6>>, <<4, 4, 4>>, <<8, 4>>, <<2, 2, 2, 2, 2, 2>>, <<3, 3, 3, 3>>,
      <<6, 1, 5>>, <<6, 0, 6>>, <<0, 6, 6>> }

\* the files: whole ones, and ones that end early
WholeFiles ==
    {TallyPart \o z \o g \o ValsPart \o Laid(l, 1) :
        z \in ZoneParts, g \in GridParts, l \in Layouts}
MctalFiles == UNION {{SubSeq(f, 1, n) : n \in 1..Len(f)} : f \in WholeFiles}

\* result(tally_number, zone_number) up to the loop of extract_result
ResultCall ==
    /\ pc \in {"idle", "returned", "raised"}
    /\ Len(answers) < MaxCalls
    /\ \E t \in TallyArgs, z \in ZoneArgs :
          /\ request' = [tally_number |-> t, zone_number |-> z]
          /\ IF <<t, z>> \in DOMAIN result_dict
             THEN /\ pc' = "returned"
                  /\ returned' = result_dict[<<t, z>>]
                  /\ answers' = Append(answers,
                                       [key |-> <<t, z>>, fresh |-> FALSE,
                                        res |-> ValR(heap, pool[result_dict[<<t, z>>]])])
                  /\ UNCHANGED <<pos, xs, ys, eys, exs, raised, state, zones, n_zones,
                                 zone_index, n_vals, must_skip, seen>>
             ELSE IF t \notin DOMAIN start_dict
             THEN /\ pc' = "raised"
                  /\ raised' = Error("Exception", <<>>)
                  /\ UNCHANGED <<pos, xs, ys, eys, exs, returned, state, zones, n_zones,
                                 zone_index, n_vals, must_skip, seen, answers>>
             ELSE /\ pc' = "reading"
                  /\ pos' = start_dict[t]
                  /\ xs' = <<>> /\ ys' = <<>> /\ eys' = <<>> /\ exs' = <<>>
                  /\ state' = SEARCH_F
                  /\ zones' = None /\ n_zones' = None /\ zone_index' = None
                  /\ n_vals' = None /\ must_skip' = None
                  /\ seen' = NotSeen
                  /\ UNCHANGED <<returned, raised, answers>>
    /\ UNCHANGED <<file, parser, n_tokens, start_dict, result_dict, resultVars,
                   t4txtVars, t4xmlVars>>

\* one iteration of `while line` in extract_result
ExtractLine ==
    /\ request # None
    /\ pc = "reading"
    /\ pos < Len(file)
    /\ LET line == file[pos + 1]
           l == Chain(Locals(state, zones, n_zones, zone_index, n_vals, must_skip,
                             xs, line),
                      request.zone_number)
           r == IF l.ok /\ l.state = READ_VALS THEN ReadVals(l.line, ys, eys, l.n_vals)
                ELSE [ok |-> l.ok, ys |-> ys, eys |-> eys, brk |-> FALSE]
           floats == Floats(SplitLine(l.line))
       IN /\ state' = l.state
          /\ zones' = l.zones
          /\ n_zones' = l.n_zones
          /\ zone_index' = l.zone_index
          /\ n_vals' = l.n_vals
          /\ must_skip' = l.must_skip
          /\ xs' = l.xs
          /\ ys' = r.ys
          /\ eys' = r.eys
          /\ seen' = [under |-> IF l.ok /\ l.state = READ_VALS /\ state # READ_VALS
                                THEN <<state, READ_VALS>> ELSE <<state>>,
                      left |-> IF r.brk THEN "break" ELSE "",
                      ys |-> IF r.brk THEN ys \o Evens(floats) ELSE <<>>,
                      eys |-> IF r.brk THEN eys \o Odds(floats) ELSE <<>>,
                      vals_at |-> IF state = SEARCH_VALS /\ l.state = SEARCH_ZONE
                                  THEN pos + 1 ELSE seen.vals_at]
          /\ IF ~r.ok
             THEN pc' = "raised" /\ raised' = Error("ValueError", <<>>) /\ pos' = pos
             ELSE /\ pc' = IF r.brk THEN "left" ELSE pc
                  /\ pos' = pos + 1
                  /\ UNCHANGED raised
    /\ UNCHANGED <<file, parser, exs, n_tokens, returned, request, start_dict,
                   result_dict, answers, resultVars,
                   t4txtVars, t4xmlVars>>

\* the Result extract_result builds from the lists
Normalized(x, y, ey) == Result(New(x), New(y), New(VMul(ey, y)), New(Ediff1d(x)))

\* the variable a Result that result() returns is bound to
FreeSlot == CHOOSE s \in Slots : IsNone(pool[s]) /\ \A t \in Slots : IsNone(pool[t]) => s <= t

\* the rest of extract_result after the loop, and of result()
ExtractEnd ==
    /\ request # None
    /\ pc = "left" \/ (pc = "reading" /\ pos = Len(file))
    /\ LET y == Append(ys, Zero)
           ey == Append(eys, Zero)
           key == <<request.tally_number, request.zone_number>>
           m == Materialize(heap, Normalized(xs, y, ey))
       IN /\ ys' = y
          /\ eys' = ey
          /\ seen' = [seen EXCEPT !.left = IF pc = "left" THEN "break" ELSE "eof"]
          /\ IF LengthsConsistent(xs, y, ey, exs)
             THEN /\ pc' = "returned"
                  /\ heap' = m.h
                  /\ pool' = [pool EXCEPT ![FreeSlot] = m.r]
                  /\ result_dict' = (key :> FreeSlot) @@ result_dict
                  /\ returned' = FreeSlot
                  /\ answers' = Append(answers, [key |-> key, fresh |-> TRUE,
                                                 res |-> ValR(m.h, m.r)])
                  /\ UNCHANGED raised
             ELSE /\ pc' = "raised"
                  /\ raised' = Error("Exception", <<>>)
                  /\ UNCHANGED <<heap, pool, result_dict, returned, answers>>
    /\ UNCHANGED <<file, parser, pos, xs, exs, n_tokens, request, start_dict, state,
                   zones, n_zones, zone_index, n_vals, must_skip, TOLERANCE, prov,
                   last, steps,
                   t4txtVars, t4xmlVars>>

\* MCTALResult(file_name) after __init__, for a file
InitMctalOn(files) ==
    /\ heap = <<>>
    /\ pool = [s \in Slots |-> None]
    /\ TOLERANCE = NoTolerance
    /\ prov = [s \in Slots |-> Origin("init", {}, TRUE)]
    /\ last = NoCall
    /\ steps = 0
    /\ \E f \in files : file = [i \in 1..Len(f) |-> Append(f[i], "\n")]
    /\ parser = None
    /\ pos = 0
    /\ xs = <<>> /\ ys = <<>> /\ eys = <<>> /\ exs = <<>>
    /\ n_tokens = <<>>
    /\ pc = "idle"
    /\ returned = None
    /\ raised = None
    /\ request = None
    /\ start_dict = Parse(file)
    /\ result_dict = <<>>
    /\ state = None /\ zones = None /\ n_zones = None /\ zone_index = None
    /\ n_vals = None /\ must_skip = None
    /\ seen = NotSeen
    /\ answers = <<>>
    /\ T4TxtIdle
    /\ T4XmlIdle

InitMctal == InitMctalOn(MctalFiles)

NextMctal ==
    \/ ResultCall
    \/ ExtractLine
    \/ ExtractEnd

SpecMctal == InitMctal /\ [][NextMctal]_vars

\* files of two tally blocks: the first is tally 1, whole or without its
\* zones, its grid or its vals marker, with the numbers 1..12; the second is
\* tally 2 or tally 1 once more, whole, with the numbers 21..32
Header(t) == << <<"t", "a", "l", "l", "y", " ", DigitChar(t)>> >>
OneZones == << <<"f", " ", "2">>, <<"5", " ", "9">> >>
OneGrid == << <<"e", " ", "3">>, <<"0", " ", "1", " ", "2">> >>
FirstBlocks ==
    {Header(1) \o OneZones \o OneGrid \o ValsPart \o Laid(<<4, 4, 4>>, 1),
     Header(1) \o OneGrid \o ValsPart \o Laid(<<4, 4, 4>>, 1),
     Header(1) \o OneZones \o ValsPart \o Laid(<<4, 4, 4>>, 1),
     Header(1) \o OneZones \o OneGrid \o Laid(<<4, 4, 4>>, 1)}
SecondBlocks ==
    {Header(t) \o OneZones \o OneGrid \o ValsPart \o Laid(l, 21) :
        t \in TallyArgs, l \in {<<4, 4, 4>>, <<6, 6>>}}
TwoTallyFiles == {a \o b : a \in FirstBlocks, b \in SecondBlocks}

InitMctalTwo == InitMctalOn(TwoTallyFiles)

SpecMctalTwo == InitMctalTwo /\ [][NextMctal]_vars

\* one MCTALResult, as _MCTAL_RESULT_CACHE of datasources/mcnp.py keeps it
\* for a file, and callers that transform the Results it hands out
CachedFiles ==
    {TallyPart \o z \o << <<"e", " ", "3">>, <<"0", " ", "1", " ", "2">> >>
               \o ValsPart \o Laid(<<4, 4, 4>>, 1) :
        z \in ZoneParts}

InitMctalCache == InitMctalOn(CachedFiles)

NextMctalCache ==
    \/ ResultCall
    \/ ExtractLine
    \/ ExtractEnd
    \/ CallDivideByBinSize
    \/ CallRescaleEdges
    \/ CallChop
    \/ CallRebin
    \/ CallAppendBin

SpecMctalCache == InitMctalCache /\ [][NextMctalCache]_vars

\* ------------------------------------------------------------------------
\* T4TXTResult at work: the constructor
\* ------------------------------------------------------------------------

\* one iteration of the loop of parse_endpoints
EndpointsLine ==
    /\ request # None
    /\ pc = "reading"
    /\ pos < Len(file)
    /\ LET l == EndpointsStep(Endpoints(endpoints, score_names, score_endpoints,
                                        region_start, this_batch_num),
                              file[pos + 1], pos + 1, batch_num)
       IN /\ endpoints' = l.endpoints
          /\ score_names' = l.score_names
          /\ score_endpoints' = l.score_endpoints
          /\ region_start' = l.region_start
          /\ this_batch_num' = l.this_batch_num
          /\ IF ~l.ok
             THEN pc' = "raised" /\ raised' = Error("IndexError", <<>>) /\ pos' = pos
             ELSE /\ pc' = IF l.brk THEN "left" ELSE pc
                  /\ pos' = pos + 1
                  /\ UNCHANGED raised
    /\ UNCHANGED <<file, parser, xs, ys, eys, exs, n_tokens, returned, resultVars,
                   mctalVars, batch_num, score_numbers, span,
                   t4xmlVars>>

\* the rest of parse_endpoints after the loop
EndpointsEnd ==
    /\ request # None
    /\ pc = "left" \/ (pc = "reading" /\ pos = Len(file))
    /\ IF Len(endpoints) = 0
       THEN /\ pc' = "raised"
            /\ raised' = Error("ValueError", <<batch_num, file>>)
            /\ UNCHANGED <<batch_num, score_numbers>>
       ELSE /\ pc' = "returned"
            /\ batch_num' = IF PyEq(batch_num, PyStr("last")) THEN this_batch_num
                            ELSE batch_num
            /\ score_numbers' = ScoreNumbers(score_names)
            /\ UNCHANGED raised
    /\ UNCHANGED <<file, parser, pos, xs, ys, eys, exs, n_tokens, returned, resultVars,
                   mctalVars, endpoints, score_names, score_endpoints, region_start,
                   this_batch_num, span, t4xmlVars>>

\* editions in a file, before one that may be cut short
MaxEditions == 2

\* the batch numbers of the editions of a file, and those asked for
BatchesUsed == {10, 20}
BatchArgs == {PyStr("last"), PyInt(10), PyInt(20), PyInt(30)}

\* the lines of a score: its response function, its name, and its regions,
\* each from the scoring mode to the number of batches used
RegionLines(b) ==
    << <<region_start_regex, " ", "X">>, <<"1", " ", "2">>,
       <<region_end_regex>> \o Numeral(b) >>
ScoreLines(name, regions, b) ==
    << <<score_start_regex, "F", "L", "U", "X">>, <<score_name_regex, name>> >>
    \o (IF regions = 1 THEN RegionLines(b) ELSE RegionLines(b) \o RegionLines(b))

\* the shapes of an edition: one score with one region, one score with two
\* regions, two scores with one region each
Shapes == {"one", "regions", "scores"}
EditionLines(shape, b) ==
    << <<edition_start_regex, " ", "1">> >>
    \o (CASE shape = "one" -> ScoreLines("a", 1, b)
          [] shape = "regions" -> ScoreLines("a", 2, b)
          [] shape = "scores" -> ScoreLines("a", 1, b) \o ScoreLines("b", 1, b))
    \o << <<edition_end_regex, ":", " ", "7">> >>

\* n whole editions one after the other
RECURSIVE EditionRuns(_)
EditionRuns(n) ==
    IF n = 0 THEN {<<>>}
    ELSE {f \o EditionLines(sh, b) : f \in EditionRuns(n - 1), sh \in Shapes, b \in BatchesUsed}

\* the listings: whole editions, then the beginning of one more
T4TxtFiles ==
    LET more == EditionLines("one", 30)
    IN {f \o SubSeq(more, 1, n) :
          f \in UNION {EditionRuns(k) : k \in 0..MaxEditions}, n \in 0..(Len(more) - 1)}

\* T4TXTResult(fname, batch_num) up to the loop of parse_endpoints
InitT4Txt ==
    /\ heap = <<>>
    /\ pool = [s \in Slots |-> None]
    /\ TOLERANCE = NoTolerance
    /\ prov = [s \in Slots |-> Origin("init", {}, TRUE)]
    /\ last = NoCall
    /\ steps = 0
    /\ \E f \in T4TxtFiles : file = [i \in 1..Len(f) |-> Append(f[i], "\n")]
    /\ parser = None
    /\ pos = 0
    /\ xs = <<>> /\ ys = <<>> /\ eys = <<>> /\ exs = <<>>
    /\ n_tokens = <<>>
    /\ pc = "reading"
    /\ returned = None
    /\ raised = None
    /\ start_dict = <<>>
    /\ result_dict = <<>>
    /\ state = None /\ zones = None /\ n_zones = None /\ zone_index = None
    /\ n_vals = None /\ must_skip = None
    /\ seen = NotSeen
    /\ answers = <<>>
    /\ batch_num \in BatchArgs
    /\ request = [batch_num |-> batch_num]
    /\ endpoints = <<>>
    /\ score_numbers = <<>>
    /\ score_names = <<>>
    /\ score_endpoints = <<>>
    /\ region_start = None
    /\ this_batch_num = None
    /\ span = None
    /\ T4XmlIdle

NextT4Txt ==
    \/ EndpointsLine
    \/ EndpointsEnd

SpecT4Txt == InitT4Txt /\ [][NextT4Txt]_vars

\* ------------------------------------------------------------------------
\* T4TXTResult at work: result() on the index parse_endpoints built
\* ------------------------------------------------------------------------

\* the scores and region ranks asked for
T4ScoreArgs == {PyStr(<<"a">>), PyStr(<<"b">>), PyStr(<<"c">>), PyInt(0), PyInt(1)}
RankArgs == {0, 1}

\* result(score, region_rank) on a T4TXTResult whose constructor returned
CallResult ==
    /\ request # None
    /\ pc = "returned"
    /\ \E score \in T4ScoreArgs, region_rank \in RankArgs :
          LET o == T4TxtResult(file, endpoints, score_numbers, score, region_rank)
          IN /\ request' = [batch_num |-> request.batch_num, score |-> score,
                            region_rank |-> region_rank]
             /\ span' = o.span
             /\ IF o.ok
                THEN pc' = "done" /\ returned' = o.ret /\ raised' = None
                ELSE pc' = "failed" /\ raised' = Error(o.kind, <<>>) /\ returned' = None
    /\ UNCHANGED <<file, parser, pos, xs, ys, eys, exs, n_tokens, resultVars, start_dict,
                   result_dict, state, zones, n_zones, zone_index, n_vals, must_skip,
                   seen, answers, batch_num, endpoints, score_numbers, score_names,
                   score_endpoints, region_start, this_batch_num, t4xmlVars>>

\* a data line: the bin from lo to hi, its value and its relative error in
\* per cent
DataLine(lo, hi, v, r) == <<lo, " - ", hi, "\t", v, "\t", r, "\t", "0">>

\* the data of a region: none, one row, two rows that touch, two rows with a
\* gap, two rows that touch and spell the common edge in two ways
RowSets ==
    [none |-> <<>>,
     one |-> <<DataLine("0", "1", "5", "10")>>,
     touch |-> <<DataLine("0", "1", "5", "10"), DataLine("1", "2", "7", "20")>>,
     gap |-> <<DataLine("0", "1", "5", "10"), DataLine("2", "3", "7", "20")>>,
     spelt |-> <<DataLine("0", "1.0", "5", "10"), DataLine("1", "2", "7", "20")>>]

Region(rows, b) ==
    << <<region_start_regex, " ", "X">> >> \o RowSets[rows]
    \o << <<region_end_regex>> \o Numeral(b) >>
RECURSIVE Regions(_, _)
Regions(rowsets, b) ==
    IF Len(rowsets) = 0 THEN <<>> ELSE Region(Head(rowsets), b) \o Regions(Tail(rowsets), b)
Score(name, rowsets, b) ==
    << <<score_start_regex, "F", "L", "U", "X">>, <<score_name_regex, name>> >>
    \o Regions(rowsets, b)

\* the scores of an edition: the data of the regions of score a, then of
\* score b where there is one
Sections ==
    {<< <<"touch">> >>,
     << <<"gap", "one">> >>,
     << <<>>, <<"touch">> >>,
     << <<"spelt">>, <<"none">> >>,
     << <<"touch", "gap">>, <<>>  >>,
     << <<>> >>}
Edition(sections, b, ended) ==
    << <<edition_start_regex, " ", "1">> >>
    \o Score("a", sections[1], b)
    \o (IF Len(sections) > 1 THEN Score("b", sections[2], b) ELSE <<>>)
    \o (IF ended THEN << <<edition_end_regex, ":", " ", "7">> >> ELSE <<>>)

\* what comes before the last edition of a file: nothing, an edition, or an
\* edition that lacks its simulation time
Before ==
    {<<>>, Edition(<< <<"touch">> >>, 10, TRUE), Edition(<< <<"touch">> >>, 20, TRUE),
     Edition(<< <<"touch">> >>, 10, FALSE)}
T4ResultFiles ==
    {f \o Edition(sections, b, TRUE) : f \in Before, sections \in Sections, b \in BatchesUsed}

InitT4Result ==
    /\ heap = <<>>
    /\ pool = [s \in Slots |-> None]
    /\ TOLERANCE = NoTolerance
    /\ prov = [s \in Slots |-> Origin("init", {}, TRUE)]
    /\ last = NoCall
    /\ steps = 0
    /\ \E f \in T4ResultFiles : file = [i \in 1..Len(f) |-> Append(f[i], "\n")]
    /\ parser = None
    /\ pos = 0
    /\ xs = <<>> /\ ys = <<>> /\ eys = <<>> /\ exs = <<>>
    /\ n_tokens = <<>>
    /\ pc = "reading"
    /\ returned = None
    /\ raised = None
    /\ start_dict = <<>>
    /\ result_dict = <<>>
    /\ state = None /\ zones = None /\ n_zones = None /\ zone_index = None
    /\ n_vals = None /\ must_skip = None
    /\ seen = NotSeen
    /\ answers = <<>>
    /\ batch_num \in BatchArgs
    /\ request = [batch_num |-> batch_num]
    /\ endpoints = <<>>
    /\ score_numbers = <<>>
    /\ score_names = <<>>
    /\ score_endpoints = <<>>
    /\ region_start = None
    /\ this_batch_num = None
    /\ span = None
    /\ T4XmlIdle

NextT4Result ==
    \/ EndpointsLine
    \/ EndpointsEnd
    \/ CallResult

SpecT4Result == InitT4Result /\ [][NextT4Result]_vars

\* ------------------------------------------------------------------------
\* T4XMLResult at work: mean_result and batch_result on an XML output
\* ------------------------------------------------------------------------

\* the arguments of the calls
ScoreArgs == {"flux"}
XmlBatchArgs == {PyStr("last"), PyInt(1), PyInt(2), PyInt(3), PyStr("first")}
RegionArgs == {1}
CellArgs == {0, 1}
TimeArgs == {0, 1}

\* calls on one T4XMLResult
MaxXmlCalls == 1

\* the caller's note of the divide_by_bin of a call of mean_result
Noted(score_name, by_bin) ==
    [n \in DOMAIN asked \cup {score_name} |->
        IF n = score_name THEN by_bin ELSE asked[n]]

CallMeanResult ==
    /\ soup # None
    /\ steps < MaxXmlCalls
    /\ steps' = steps + 1
    /\ \E score_name \in ScoreArgs, b \in XmlBatchArgs, region_id \in RegionArgs,
          i \in CellArgs, time_step \in TimeArgs, by_bin \in BOOLEAN :
          LET o == mean_result(soup, score_name, b, region_id, <<i, 0, 0>>, time_step,
                               by_bin)
          IN /\ request' = [op |-> "mean_result", score_name |-> score_name,
                            batch_num |-> b, region_id |-> region_id,
                            cell |-> <<i, 0, 0>>, time_step |-> time_step,
                            divide_by_bin |-> by_bin]
             /\ found' = o.at
             /\ divide_by_bin' = IF IsNone(o.dbb) THEN divide_by_bin ELSE o.dbb
             /\ asked' = Noted(score_name, by_bin)
             /\ IF o.ok
                THEN pc' = "returned" /\ returned' = o.ret /\ raised' = None
                ELSE pc' = "raised" /\ raised' = Error(o.kind, <<>>) /\ returned' = None
    /\ UNCHANGED <<file, parser, pos, xs, ys, eys, exs, n_tokens, heap, pool,
                   TOLERANCE, prov, last, start_dict, result_dict, state, zones,
                   n_zones, zone_index, n_vals, must_skip, seen, answers, t4txtVars,
                   soup>>

CallBatchResult ==
    /\ soup # None
    /\ steps < MaxXmlCalls
    /\ steps' = steps + 1
    /\ \E score_name \in ScoreArgs, b \in XmlBatchArgs, region_id \in RegionArgs,
          i \in CellArgs, by_bin \in BOOLEAN :
          LET o == batch_result(soup, score_name, b, region_id, <<0, i, 0, 0>>, by_bin)
          IN /\ request' = [op |-> "batch_result", score_name |-> score_name,
                            batch_num |-> b, region_id |-> region_id,
                            cell |-> <<0, i, 0, 0>>, time_step |-> 0,
                            divide_by_bin |-> by_bin]
             /\ found' = o.at
             /\ IF o.ok
                THEN pc' = "returned" /\ returned' = o.ret /\ raised' = None
                ELSE pc' = "raised" /\ raised' = Error(o.kind, <<>>) /\ returned' = None
    /\ UNCHANGED <<file, parser, pos, xs, ys, eys, exs, n_tokens, heap, pool,
                   TOLERANCE, prov, last, start_dict, result_dict, state, zones,
                   n_zones, zone_index, n_vals, must_skip, seen, answers, t4txtVars,
                   soup, divide_by_bin, asked>>

\* the grids of a file: one ascending, one descending, one of time steps
Decoupages ==
    <<[name |-> "asc", string |-> <<Numeral(1), Numeral(2), Numeral(4)>>],
      [name |-> "desc", string |-> <<Numeral(4), Numeral(2), Numeral(1)>>],
      [name |-> "t", string |-> <<Numeral(0), Numeral(5), Numeral(9)>>]>>

\* the regions of a score: a volume with or without a divisor, or a mesh of
\* two cells
GelementDefs ==
    {[id |-> 1, zone_type |-> "VOLUME", div_value |-> <<>>, nx |-> 0, ny |-> 0, nz |-> 0],
     [id |-> 1, zone_type |-> "VOLUME", div_value |-> Numeral(2), nx |-> 0, ny |-> 0,
      nz |-> 0],
     [id |-> 1, zone_type |-> "SPECIAL_MESH", div_value |-> <<>>, nx |-> 2, ny |-> 1,
      nz |-> 1]}

Scores ==
    {[name |-> "flux", id |-> 7, nrj_dec |-> g, tps_dec |-> t, gelement_def |-> <<d>>] :
        g \in {"asc", "desc"}, t \in {None, PyStr("t")}, d \in GelementDefs}

\* the values a score stores: one for each time step, energy bin and cell
Stored(score) ==
    (IF IsNone(score.tps_dec) THEN 1 ELSE 2) * 2
    * (IF score.gelement_def[1].zone_type = "SPECIAL_MESH" THEN 2 ELSE 1)

\* the child of <batches> at place p, with values that tell where they stand
Block(tag, num, p, score) ==
    LET vals == [i \in 1..Stored(score) |-> Numeral(10 * p + i)]
        sds == [i \in 1..Stored(score) |-> Numeral(50 + 10 * p + i)]
    IN [tag |-> tag, num |-> num,
        result |-> <<[scoreid |-> score.id,
                      gelement |-> <<IF tag = "batch"
                                     THEN [id |-> 1, string |-> vals, val |-> <<>>,
                                           sd |-> <<>>]
                                     ELSE [id |-> 1, string |-> <<>>, val |-> vals,
                                           sd |-> sds]>>]>>]

\* the children of <batches>, as [tag, num]
BatchLists ==
    {<<>>,
     <<<<"batch", 1>>, <<"mean_results", 1>>>>,
     <<<<"batch", 1>>, <<"batch", 2>>, <<"mean_results", 2>>>>,
     <<<<"batch", 1>>, <<"mean_results", 1>>, <<"batch", 2>>, <<"mean_results", 2>>>>,
     <<<<"batch", 1>>, <<"batch", 2>>>>,
     <<<<"mean_results", 1>>, <<"mean_results", 2>>>>}

Soups ==
    {[list_decoupage |-> Decoupages, scores_definition |-> <<score>>,
      batches |-> [p \in 1..Len(l) |-> Block(l[p][1], l[p][2], p, score)]] :
        score \in Scores, l \in BatchLists}

InitT4Xml ==
    /\ heap = <<>>
    /\ pool = [s \in Slots |-> None]
    /\ TOLERANCE = NoTolerance
    /\ prov = [s \in Slots |-> Origin("init", {}, TRUE)]
    /\ last = NoCall
    /\ steps = 0
    /\ TxtIdle
    /\ MctalIdle
    /\ T4TxtIdle
    /\ soup \in Soups
    /\ found = 0
    /\ divide_by_bin = None
    /\ asked = <<>>

NextT4Xml ==
    \/ CallMeanResult
    \/ CallBatchResult

SpecT4Xml == InitT4Xml /\ [][NextT4Xml]_vars

\* ------------------------------------------------------------------------
\* T4XMLResult at work: mean_result and labels on a file of two scores
\* ------------------------------------------------------------------------

\* calls on one T4XMLResult
MaxLabelCalls == 3

\* the arguments of the calls: the two scores of the file and one it has not;
\* the batch of the file and one it has not
LabelScoreArgs == {"flux", "heat", "dose"}
LabelBatchArgs == {PyStr("last"), PyInt(3)}

\* mean_result on the file of two scores
CallMeanLabelled ==
    /\ soup # None
    /\ steps < MaxLabelCalls
    /\ steps' = steps + 1
    /\ \E score_name \in LabelScoreArgs, b \in LabelBatchArgs, region_id \in RegionArgs,
          i \in CellArgs, time_step \in TimeArgs, by_bin \in BOOLEAN :
          LET o == mean_result(soup, score_name, b, region_id, <<i, 0, 0>>, time_step,
                               by_bin)
          IN /\ request' = [op |-> "mean_result", score_name |-> score_name,
                            batch_num |-> b, region_id |-> region_id,
                            cell |-> <<i, 0, 0>>, time_step |-> time_step,
                            divide_by_bin |-> by_bin]
             /\ found' = o.at
             /\ divide_by_bin' = IF IsNone(o.dbb) THEN divide_by_bin ELSE o.dbb
             /\ asked' = Noted(score_name, by_bin)
             /\ IF o.ok
                THEN pc' = "returned" /\ returned' = o.ret /\ raised' = None
                ELSE pc' = "raised" /\ raised' = Error(o.kind, <<>>) /\ returned' = None
    /\ UNCHANGED <<file, parser, pos, xs, ys, eys, exs, n_tokens, heap, pool,
                   TOLERANCE, prov, last, start_dict, result_dict, state, zones,
                   n_zones, zone_index, n_vals, must_skip, seen, answers, t4txtVars,
                   soup>>

CallLabels ==
    /\ soup # None
    /\ steps < MaxLabelCalls
    /\ steps' = steps + 1
    /\ \E score_name \in LabelScoreArgs :
          LET o == labels(soup, score_name, divide_by_bin)
          IN /\ request' = [op |-> "labels", score_name |-> score_name]
             /\ IF o.ok
                THEN pc' = "returned" /\ returned' = o.ret /\ raised' = None
                ELSE pc' = "raised" /\ raised' = Error(o.kind, <<>>) /\ returned' = None
    /\ UNCHANGED <<file, parser, pos, xs, ys, eys, exs, n_tokens, heap, pool,
                   TOLERANCE, prov, last, start_dict, result_dict, state, zones,
                   n_zones, zone_index, n_vals, must_skip, seen, answers, t4txtVars,
                   t4xmlVars>>

\* the responses of the file
Responses ==
    <<[id |-> 1, particle |-> <<"N", "E", "U", "T", "R", "O", "N">>,
       type |-> <<"F", "L", "U", "X">>],
      [id |-> 2, particle |-> <<"P", "H", "O", "T", "O", "N">>,
       type |-> <<"H", "E", "A", "T">>]>>

\* what a score may declare: a time grid, an angle grid, a divisor
Declared ==
    {[tps_dec |-> None, mu_dec |-> None, div_value |-> <<>>],
     [tps_dec |-> PyStr("t"), mu_dec |-> None, div_value |-> Numeral(2)],
     [tps_dec |-> None, mu_dec |-> PyStr("asc"), div_value |-> <<>>],
     [tps_dec |-> PyStr("t"), mu_dec |-> PyStr("asc"), div_value |-> Numeral(2)]}

LabelScore(name, id, response_id, d) ==
    [name |-> name, id |-> id, response_id |-> PyInt(response_id), nrj_dec |-> "asc",
     tps_dec |-> d.tps_dec, mu_dec |-> d.mu_dec,
     gelement_def |-> <<[id |-> 1, zone_type |-> "VOLUME", div_value |-> d.div_value,
                         nx |-> 0, ny |-> 0, nz |-> 0]>>]

\* a file of two scores with one <mean_results> that has both
LabelSoups ==
    {[list_decoupage |-> Decoupages,
      response_definition |-> Responses,
      scores_definition |-> <<LabelScore("flux", 7, 1, d1), LabelScore("heat", 8, 2, d2)>>,
      batches |-> <<[tag |-> "mean_results", num |-> 1,
                     result |-> Block("mean_results", 1, 1,
                                      LabelScore("flux", 7, 1, d1)).result
                                \o Block("mean_results", 1, 2,
                                         LabelScore("heat", 8, 2, d2)).result]>>] :
        d1 \in Declared, d2 \in {d \in Declared : IsNone(d.tps_dec)}}

InitT4Labels ==
    /\ heap = <<>>
    /\ pool = [s \in Slots |-> None]
    /\ TOLERANCE = NoTolerance
    /\ prov = [s \in Slots |-> Origin("init", {}, TRUE)]
    /\ last = NoCall
    /\ steps = 0
    /\ TxtIdle
    /\ MctalIdle
    /\ T4TxtIdle
    /\ soup \in LabelSoups
    /\ found = 0
    /\ divide_by_bin = None
    /\ asked = <<>>

NextT4Labels ==
    \/ CallMeanLabelled
    \/ CallLabels

SpecT4Labels == InitT4Labels /\ [][NextT4Labels]_vars

\* every value stays in the field the model computes in
NoIrr ==
    \A b \in 1..Len(heap) : \A i \in 1..Len(heap[b]) : heap[b][i].k # "irr"

\* ------------------------------------------------------------------------
\* properties of the arithmetic operators
\* ------------------------------------------------------------------------

ArithOps == {"add", "sub", "mul", "div"}
InPlaceOps == {"rebin", "rescale_edges", "append_bin", "chop", "divide_by_bin_size"}

\* the operands of the last call that are Results
OperandSlots == {last.a, last.b} \ {0}

\* C1: an arithmetic operator, returning or raising, leaves the four fields
\* of both operands as they were; the Result it returns has no array in a
\* buffer of an operand; and an in-place transform of a Result an operator
\* returned leaves the operands it was computed from as they were.
OperandsUntouched ==
    /\ last.op \in ArithOps =>
          /\ \A s \in OperandSlots : ValR(heap, pool[s]) = last.pre[s]
          /\ last.ok =>
                \A s \in OperandSlots : Bufs(pool[last.dst]) \cap Bufs(pool[s]) = {}
    /\ (last.op \in InPlaceOps /\ prov[last.a].kind = "arith") =>
          \A s \in prov[last.a].from : ValR(heap, pool[s]) = last.pre[s]

\* a Result returned by an operator on two Results has been transformed in
\* place, and the transform changed it
TransformedAfterArith ==
    /\ last.op \in InPlaceOps
    /\ last.ok
    /\ prov[last.a].kind = "arith"
    /\ Cardinality(prov[last.a].from) = 2
    /\ ValR(heap, pool[last.a]) # last.pre[last.a]

\* the values of the operands' edges before the last call
EdgesBefore(s) == last.pre[s].edges.v

\* the tolerance tau: the global TOLERANCE when one is set, else
\* max(100*eps, 100*eps)
Tau == IF TOLERANCE # NoTolerance THEN TOLERANCE
       ELSE MaxN(Mul(Int2Num(100), Eps), Mul(Int2Num(100), Eps))

\* C2: an operator between two Results returns only when the operands' edges
\* have the same length and every pair of corresponding edges differs by at
\* most tau.
ReturnsOnlyWithinTau ==
    (last.op \in ArithOps /\ last.b # 0 /\ last.ok) =>
        /\ Len(EdgesBefore(last.a)) = Len(EdgesBefore(last.b))
        /\ \A i \in 1..Len(EdgesBefore(last.a)) :
              Le(Abs(Sub(EdgesBefore(last.a)[i], EdgesBefore(last.b)[i])), Tau)

\* contents, and errors and xerrors when present, are as long as edges
LengthsAgree(r) ==
    /\ LenOf(heap, r.contents) = LenOf(heap, r.edges)
    /\ IsNone(r.errors) \/ LenOf(heap, r.errors) = LenOf(heap, r.edges)
    /\ IsNone(r.xerrors) \/ LenOf(heap, r.xerrors) = LenOf(heap, r.edges)

\* C3: every Result obtained from the starting Results by calls that all
\* completed has contents, errors and xerrors (when present) as long as its
\* edges.
LengthInvariant ==
    \A s \in Filled : prov[s].clean => LengthsAgree(pool[s])

\* the operands of the last call as they were before it, and what it returned
LeftBefore == last.pre[last.a]
RightBefore == last.pre[last.b]
ReturnedNow == ValR(heap, pool[last.dst])

\* C4: for add, sub and mul of two Results the returned errors are absent
\* exactly when both operands' errors are; with both present they are
\* sqrt(e1^2 + e2^2) (add, sub) or sqrt((c1*e2)^2 + (e1*c2)^2) (mul), element
\* by element; with one present they are a copy of it (add, sub) or e1*c2,
\* c1*e2 (mul): an absent operand never counts as an array of zeros.
ErrorPrecedence ==
    (last.op \in {"add", "sub", "mul"} /\ last.b # 0 /\ last.ok) =>
        LET e1 == LeftBefore.errors
            e2 == RightBefore.errors
            c1 == LeftBefore.contents.v
            c2 == RightBefore.contents.v
            e == ReturnedNow.errors
        IN /\ IsNone(e) <=> (IsNone(e1) /\ IsNone(e2))
           /\ (~IsNone(e1) /\ ~IsNone(e2)) =>
                 \A i \in 1..Len(e.v) :
                    e.v[i] = IF last.op = "mul"
                             THEN Sqrt(Add(Sq(Mul(At(c1, i), At(e2.v, i))),
                                           Sq(Mul(At(e1.v, i), At(c2, i)))))
                             ELSE Sqrt(Add(Sq(At(e1.v, i)), Sq(At(e2.v, i))))
           /\ (~IsNone(e1) /\ IsNone(e2)) =>
                 IF last.op = "mul"
                 THEN \A i \in 1..Len(e.v) : e.v[i] = Mul(At(e1.v, i), At(c2, i))
                 ELSE e.v = e1.v
           /\ (IsNone(e1) /\ ~IsNone(e2)) =>
                 IF last.op = "mul"
                 THEN \A i \in 1..Len(e.v) : e.v[i] = Mul(At(c1, i), At(e2.v, i))
                 ELSE e.v = e2.v

\* a product of two Results of which only the right one has errors, the
\* returned errors not all 0
OneSidedProduct ==
    /\ last.op = "mul" /\ last.b # 0 /\ last.ok
    /\ IsNone(LeftBefore.errors) /\ ~IsNone(RightBefore.errors)
    /\ Len(RightBefore.errors.v) = MaxLen
    /\ \E i \in 1..Len(ReturnedNow.errors.v) : ~IsZero(ReturnedNow.errors.v[i])

\* C5: in a quotient of two Results, wherever the divisor's contents are 0
\* the returned contents are exactly 0 and, when errors are returned, so are
\* the returned errors.
ZeroDivisorGivesZero ==
    (last.op = "div" /\ last.b # 0 /\ last.ok) =>
        \A i \in 1..Len(ReturnedNow.contents.v) :
            IsZero(At(RightBefore.contents.v, i)) =>
                /\ ReturnedNow.contents.v[i] = Zero
                /\ IsNone(ReturnedNow.errors) \/ At(ReturnedNow.errors.v, i) = Zero

\* ------------------------------------------------------------------------
\* properties of the transforms
\* ------------------------------------------------------------------------

\* the receiver of the last call before it and after it
SelfBefore == last.pre[last.a]
SelfNow == ValR(heap, pool[last.a])

\* the sum of a[lo..hi]
RECURSIVE SumRange(_, _, _)
SumRange(a, lo, hi) == IF lo > hi THEN Zero ELSE Add(a[lo], SumRange(a, lo + 1, hi))

\* the sum of the squares of a[lo..hi]
RECURSIVE SumSqRange(_, _, _)
SumSqRange(a, lo, hi) ==
    IF lo > hi THEN Zero ELSE Add(Mul(a[lo], a[lo]), SumSqRange(a, lo + 1, hi))

\* group j of n elements of a, combined: the mean or the sum
Combined(a, j, n, mean) ==
    IF mean THEN Div(SumRange(a, (j - 1) * n + 1, j * n), Int2Num(n))
    ELSE SumRange(a, (j - 1) * n + 1, j * n)

\* group j of n elements of a, combined in quadrature
CombinedSq(a, j, n, mean) ==
    IF mean THEN Sqrt(Div(SumSqRange(a, (j - 1) * n + 1, j * n), Int2Num(n)))
    ELSE Sqrt(SumSqRange(a, (j - 1) * n + 1, j * n))

\* the receiver of the last call had, before it, arrays all as long as its edges
WellFormedBefore ==
    /\ Len(SelfBefore.contents.v) = Len(SelfBefore.edges.v)
    /\ IsNone(SelfBefore.errors) \/ Len(SelfBefore.errors.v) = Len(SelfBefore.edges.v)
    /\ IsNone(SelfBefore.xerrors) \/ Len(SelfBefore.xerrors.v) = Len(SelfBefore.edges.v)

\* what rebin(n, mean) is to do to a Result with E edges: fail when n does
\* not divide E-1; otherwise every array becomes (E-1)/n + 1 long, the edges
\* are the old ones at 0, n, 2n, .., E-1, the contents the mean or sum of
\* each group of n followed by 0, and errors and xerrors, when present, the
\* square root of the mean or sum of the squares of each group followed by 0
RebinAsDescribed ==
    LET E == Len(SelfBefore.edges.v)
        n == last.args.nbins
        mean == last.args.mean
        G == (E - 1) \div n
    IN IF (E - 1) % n # 0 THEN ~last.ok
       ELSE /\ last.ok
            /\ Len(SelfNow.edges.v) = G + 1
            /\ \A j \in 1..(G + 1) :
                  SelfNow.edges.v[j] = SelfBefore.edges.v[(j - 1) * n + 1]
            /\ Len(SelfNow.contents.v) = G + 1
            /\ SelfNow.contents.v[G + 1] = Zero
            /\ \A j \in 1..G :
                  SelfNow.contents.v[j] = Combined(SelfBefore.contents.v, j, n, mean)
            /\ \A f \in {"errors", "xerrors"} :
                  IF IsNone(SelfBefore[f]) THEN IsNone(SelfNow[f])
                  ELSE /\ Len(SelfNow[f].v) = G + 1
                       /\ SelfNow[f].v[G + 1] = Zero
                       /\ \A j \in 1..G :
                             SelfNow[f].v[j] = CombinedSq(SelfBefore[f].v, j, n, mean)

RoundTripMade ==
    /\ last.op = "multiply_by_bin_size"
    /\ last.before.op = "divide_by_bin_size"
    /\ last.before.a = last.a
    /\ last.before.args.pad = last.args.pad
    /\ last.args.pad \in {"first", "last"}
    /\ ~IsNone(last.before.pre[last.a].errors)

\* C7: divide_by_bin_size(pad) followed by multiply_by_bin_size(pad) gives
\* a Result with errors back its contents and errors at every index, and
\* leaves its edges and xerrors as they were.
BinSizeRoundTrip ==
    RoundTripMade =>
        /\ last.before.ok /\ last.ok
        /\ SelfNow = last.before.pre[last.a]

\* C8: chop(threshold) of a Result with errors sets to 0 the contents
\* strictly below threshold and the errors at the same indices, and nothing
\* else: the other contents and errors, the edges and the xerrors stay.
ChopBelowThreshold ==
    (last.op = "chop" /\ ~IsNone(SelfBefore.errors) /\ WellFormedBefore) =>
        /\ last.ok
        /\ SelfNow.edges = SelfBefore.edges
        /\ SelfNow.xerrors = SelfBefore.xerrors
        /\ Len(SelfNow.contents.v) = Len(SelfBefore.contents.v)
        /\ Len(SelfNow.errors.v) = Len(SelfBefore.errors.v)
        /\ \A i \in 1..Len(SelfBefore.contents.v) :
              IF Lt(SelfBefore.contents.v[i], last.args.threshold)
              THEN SelfNow.contents.v[i] = Zero /\ SelfNow.errors.v[i] = Zero
              ELSE /\ SelfNow.contents.v[i] = SelfBefore.contents.v[i]
                   /\ SelfNow.errors.v[i] = SelfBefore.errors.v[i]

\* a chop that zeroed a content below the threshold and its error, and kept
\* a content equal to the threshold with its error
ChoppedSome ==
    /\ last.op = "chop" /\ last.ok /\ ~IsNone(SelfBefore.errors) /\ WellFormedBefore
    /\ \E i \in 1..Len(SelfBefore.contents.v) :
          /\ Lt(SelfBefore.contents.v[i], last.args.threshold)
          /\ ~IsZero(SelfBefore.contents.v[i]) /\ ~IsZero(SelfBefore.errors.v[i])
          /\ SelfNow.contents.v[i] = Zero /\ SelfNow.errors.v[i] = Zero
    /\ \E i \in 1..Len(SelfBefore.contents.v) :
          /\ SelfBefore.contents.v[i] = last.args.threshold
          /\ ~IsZero(SelfNow.errors.v[i])

\* ------------------------------------------------------------------------
\* properties of the generic line parser
\* ------------------------------------------------------------------------

\* what the tokenizer makes of line i of the file
Tok(i) == Tokenize(parser, file[i])
\* line i is not skipped: the tokenizer returns a tuple for it
Kept(i) == Tok(i).ok /\ Tok(i).parsed # None /\ Tok(i).parsed # <<>>
Arity(i) == Len(Tok(i).parsed)
KeptAmong(n) == {i \in 1..n : Kept(i)}
FirstOf(S) == CHOOSE i \in S : \A j \in S : i <= j

\* C9: the first line not skipped fixes the arity; the lines consumed after
\* it all have that arity; a later line of another arity makes result()
\* raise an error quoting that line, and return nothing; the lines the
\* tokenizer returns None for leave the arity alone and add no data.
ArityRule ==
    LET kept == KeptAmong(pos)
    IN /\ (kept = {} /\ pc # "raised") => n_tokens = <<>>
       /\ kept # {} => n_tokens = <<Arity(FirstOf(kept))>>
       /\ \A i \in kept : Arity(i) = Arity(FirstOf(kept))
       /\ Len(xs) = Cardinality(kept) /\ Len(ys) = Cardinality(kept)
       /\ Len(eys) \in {0, Cardinality(kept)} /\ Len(exs) \in {0, Cardinality(kept)}
       /\ (pc # "reading" /\ pos < Len(file) /\ kept # {} /\ Kept(pos + 1)
             /\ Arity(pos + 1) # Arity(FirstOf(kept))) =>
               /\ pc = "raised"
               /\ raised.kind = "Exception"
               /\ raised.text = <<file[pos + 1]>>
               /\ returned = None
       /\ pc = "returned" => pos = Len(file)

\* result() raised on a line of another arity than the first line not
\* skipped, which came after a skipped line
ArityChanged ==
    /\ pc = "raised"
    /\ raised.kind = "Exception" /\ raised.text = <<file[pos + 1]>>
    /\ KeptAmong(pos) # {}
    /\ FirstOf(KeptAmong(pos)) > 1
    /\ Kept(pos + 1) /\ Arity(pos + 1) # n_tokens[1]

\* the lines of the file not skipped, in file order
KeptLines == SelectSeq([i \in 1..Len(file) |-> i], Kept)
\* column c of the tuples of the lines not skipped
Column(c) == [j \in 1..Len(KeptLines) |-> Tok(KeptLines[j]).parsed[c]]

\* every line is tokenized without an exception and the tuples all have
\* one arity, 2, 3 or 4
OneArity ==
    /\ \A i \in 1..Len(file) : Tok(i).ok
    /\ \A i \in 1..Len(KeptLines) :
          Arity(KeptLines[i]) = Arity(KeptLines[1]) /\ Arity(KeptLines[i]) \in {2, 3, 4}

\* the characters of s before its first comment character
RECURSIVE BeforeComment(_)
BeforeComment(s) ==
    IF Len(s) = 0 \/ Head(s) \in {"#", "@"} THEN <<>>
    ELSE <<Head(s)>> \o BeforeComment(Tail(s))

\* s cut after its first comment character
UpToComment(s) ==
    IF Len(BeforeComment(s)) = Len(s) THEN s
    ELSE SubSeq(s, 1, Len(BeforeComment(s)) + 1)

\* C10: when every line not skipped yields a tuple of one arity 2, 3 or 4,
\* result() returns a Result whose edges and contents are the x and y of
\* those lines in file order, whose errors are the ey column for arity 3
\* and 4 and absent for 2, whose xerrors are the ex column for arity 4 and
\* absent otherwise.  The CSV tokenizer skips a line that is blank up to
\* its first comment character, and makes of any line what it makes of the
\* line cut after that character.
Assembly ==
    /\ (pc # "reading" /\ OneArity) =>
          /\ pc = "returned"
          /\ returned.edges = New(Column(1))
          /\ returned.contents = New(Column(2))
          /\ returned.errors =
                IF KeptLines # <<>> /\ Arity(KeptLines[1]) >= 3 THEN New(Column(3))
                ELSE None
          /\ returned.xerrors =
                IF KeptLines # <<>> /\ Arity(KeptLines[1]) = 4 THEN New(Column(4))
                ELSE None
    /\ pc = "returned" => OneArity
    /\ parser.k = "csv" =>
          \A i \in 1..Len(file) :
              /\ Tok(i) = Tokenize(parser, UpToComment(file[i]))
              /\ (\A j \in 1..Len(BeforeComment(file[i])) :
                      BeforeComment(file[i])[j] \in Whitespace) =>
                    Tok(i).ok /\ Tok(i).parsed = None

\* result() returned a Result with errors and xerrors from a file with a
\* comment line and a line with data before a comment
AssembledFour ==
    /\ pc = "returned"
    /\ parser.k = "csv"
    /\ Len(KeptLines) = 2
    /\ ~IsNone(returned.xerrors)
    /\ Len(returned.xerrors.v) = 2
    /\ returned.errors # returned.xerrors
    /\ returned.edges # returned.contents
    /\ \E i \in 1..Len(file) : ~Kept(i) /\ \E j \in 1..Len(file[i]) : file[i][j] = "#"
    /\ \E i \in 1..Len(file) : Kept(i) /\ \E j \in 1..Len(file[i]) : file[i][j] = "#"

\* ------------------------------------------------------------------------
\* properties of slices
\* ------------------------------------------------------------------------

SliceSafeOps == {"rescale_edges", "chop", "divide_by_bin_size", "multiply_by_bin_size"}

\* the pairs <<slice, source>> of variables: the first holds a Result that
\* __getitem__ returned for the second
SlicePairs ==
    {pr \in Slots \X Slots : prov[pr[1]].kind = "slice" /\ pr[2] \in prov[pr[1]].from}

\* C18: rescale_edges, chop, divide_by_bin_size or multiply_by_bin_size on
\* a Result obtained by slicing leaves every field of the source Result as
\* it was, and on the source leaves every field of the slice as it was.
SlicesShareNothing ==
    last.op \in SliceSafeOps =>
        \A pr \in SlicePairs :
            /\ last.a = pr[1] => ValR(heap, pool[pr[2]]) = last.pre[pr[2]]
            /\ last.a = pr[2] => ValR(heap, pool[pr[1]]) = last.pre[pr[1]]

\* ------------------------------------------------------------------------
\* properties of the MCTAL parser
\* ------------------------------------------------------------------------

\* the numeric tokens of the lines that follow line i, in file order
RECURSIVE StreamAfter(_)
StreamAfter(i) ==
    IF i >= Len(file) THEN <<>>
    ELSE SelectSeq(SplitLine(file[i + 1]), LAMBDA t : t # <<>>) \o StreamAfter(i + 1)

\* the tokens that follow the vals marker, and the block of 2*(g+1) tokens
\* of the requested zone among them
ValsStream == StreamAfter(seen.vals_at)
BlockStart == 2 * zone_index * (n_vals + 1)
BlockLen == 2 * (n_vals + 1)
ZoneBlock == SubSeq(ValsStream, BlockStart + 1, BlockStart + BlockLen)

\* the scan of extract_result has read g+1 values and left the loop
BlockRead == request # None /\ seen.left = "break"

\* C11: where the file holds the whole block of the requested zone, the g+1
\* values and errors that extract_result builds on are the tokens at the
\* even and at the odd offsets of the 2*(g+1) tokens that follow the first
\* 2*k*(g+1) tokens after the vals marker, however the tokens are laid out
\* in lines.
ZoneBlockSelected ==
    (BlockRead /\ Len(ValsStream) >= BlockStart + BlockLen) =>
        /\ UpTo(seen.ys, n_vals + 1) = Floats(Evens(ZoneBlock))
        /\ UpTo(seen.eys, n_vals + 1) = Floats(Odds(ZoneBlock))

\* result() has just returned a Result that extract_result built
ExtractReturned ==
    /\ request # None
    /\ pc = "returned"
    /\ answers # <<>>
    /\ answers[Len(answers)].fresh

\* C12: extract_result returns a Result only when the scan has read the
\* g+1 value/error pairs of the requested zone; where the file ends before
\* that, in whichever state, the call raises.
EndOfFileFails ==
    ExtractReturned => (seen.left = "break" /\ Len(seen.eys) >= n_vals + 1)

\* C13: two calls of result() with the same tally and zone number return
\* Results whose four fields are equal, whatever the callers did in between
\* to the Results returned earlier; and a call that raises leaves nothing
\* in result_dict for its key.
CachedResultsEqual ==
    /\ \A i \in 1..Len(answers), j \in 1..Len(answers) :
          answers[i].key = answers[j].key => answers[i].res = answers[j].res
    /\ (request # None /\ pc = "raised") =>
          <<request.tally_number, request.zone_number>> \notin DOMAIN result_dict

\* the state that follows a state of the scan; READ_VALS is the last one
Successor(st) ==
    CASE st = SEARCH_F -> READ_F
      [] st = READ_F -> SEARCH_X
      [] st = SEARCH_X -> READ_X
      [] st = READ_X -> SEARCH_VALS
      [] st = SEARCH_VALS -> SEARCH_ZONE
      [] st = SEARCH_ZONE -> READ_VALS
      [] OTHER -> st

\* the values and errors the scan has collected so far
CollectedYs == IF seen.left = "break" THEN seen.ys ELSE ys
CollectedEys == IF seen.left = "break" THEN seen.eys ELSE eys

\* the tokens of the line just read that the skip left over
LeftOver ==
    LET tokens == SelectSeq(SplitLine(file[pos]), LAMBDA t : t # <<>>)
    IN IF tokens = <<>> THEN <<>>
       ELSE SubSeq(tokens, Len(tokens) + must_skip + 1, Len(tokens))

\* C19: the scan of extract_result starts in SEARCH_F; a line leaves the
\* state as it is or moves it to its successor in the order SEARCH_F,
\* READ_F, SEARCH_X, READ_X, SEARCH_VALS, SEARCH_ZONE, READ_VALS; and the
\* only line handled under two states is the one that ends the skip, under
\* SEARCH_ZONE and READ_VALS, its left-over tokens read as values and errors.
StateOrder ==
    /\ [][ /\ (pc # "reading" /\ pc' = "reading") => state' = SEARCH_F
           /\ (pc = "reading" /\ pos' # pos) => state' \in {state, Successor(state)} ]_vars
    /\ [](request # None =>
            /\ Len(seen.under) <= 1 \/ seen.under = <<SEARCH_ZONE, READ_VALS>>
            /\ (Len(seen.under) = 2 /\ Parsing) =>
                  /\ must_skip < 0
                  /\ CollectedYs = Floats(Evens(LeftOver))
                  /\ CollectedEys = Floats(Odds(LeftOver)))

\* the skip has ended in the middle of a line, for a zone that is not the
\* first, and the rest of the line has been read as values
SkipEndedInLine ==
    /\ request # None
    /\ Parsing
    /\ seen.under = <<SEARCH_ZONE, READ_VALS>>
    /\ zone_index > 0
    /\ state = READ_VALS
    /\ Len(LeftOver) < Len(SplitLine(file[pos]))
    /\ CollectedYs # <<>>

\* the contents and errors of the Result that result() returned
ReturnedContents == Val(heap, pool[returned].contents)
ReturnedErrors == Val(heap, pool[returned].errors)

\* the Result returned has these contents, and these relative errors
\* multiplied by the contents
PostProcessedAs(values, relative) ==
    /\ ReturnedContents = Append(values, Zero)
    /\ Len(relative) = Len(values)
    /\ ReturnedErrors = VMul(Append(relative, Zero), ReturnedContents)

\* C20 as stated: the contents are the g+1 values of the zone without the
\* first one, followed by 0; the errors are the g+1 relative errors without
\* the first one, followed by 0, each multiplied by the content at its index.
OnlyFirstDropped ==
    (ExtractReturned /\ seen.left = "break") =>
        PostProcessedAs(Tail(UpTo(seen.ys, n_vals + 1)), Tail(UpTo(seen.eys, n_vals + 1)))

\* C20: the contents are the values collected for the zone at positions
\* 2..g, the first one and those from position g+1 on dropped, followed by
\* 0; the errors are the relative errors collected at positions 2..g,
\* followed by 0, each multiplied by the content at its index.
FirstAndLastDropped ==
    (ExtractReturned /\ seen.left = "break") =>
        /\ Len(seen.ys) >= n_vals /\ Len(seen.eys) >= n_vals
        /\ PostProcessedAs(SubSeq(seen.ys, 2, n_vals), SubSeq(seen.eys, 2, n_vals))

\* zone 9 of a file with three pairs per zone has been extracted: value 9
\* with relative error 10
SecondZoneExtracted ==
    /\ ExtractReturned
    /\ seen.left = "break"
    /\ request.zone_number = 9
    /\ n_vals = 2
    /\ ReturnedContents = <<Int2Num(9), Zero>>
    /\ ReturnedErrors = <<Int2Num(90), Zero>>

\* ------------------------------------------------------------------------
\* properties of the Tripoli-4 text parser
\* ------------------------------------------------------------------------

\* the lines of the file that carry a marker
LinesWith(regex) == {i \in 1..Len(file) : Matches(regex, file[i])}
Latest(S) == CHOOSE i \in S : \A j \in S : j <= i

\* a completed edition, named by the line of its simulation-time marker:
\* the line that starts it (0 if none), the lines that end its regions,
\* and the batch number its last region reports
StartOf(e) ==
    LET starts == {i \in LinesWith(edition_start_regex) : i < e}
    IN IF starts = {} THEN 0 ELSE Latest(starts)
RegionEndsOf(e) == {j \in LinesWith(region_end_regex) : StartOf(e) < j /\ j < e}
BatchOf(e) == Decimal(DigitsGroup(file[Latest(RegionEndsOf(e))]))
Completed == {e \in LinesWith(edition_end_regex) : RegionEndsOf(e) # {}}

\* the offsets of the regions of a completed edition, in file order: from
\* after the scoring-mode line to after the number-of-batches line
RECURSIVE OffsetsFrom(_, _)
OffsetsFrom(j, e) ==
    IF j >= e THEN <<>>
    ELSE IF j \in RegionEndsOf(e)
    THEN << <<PyInt(Latest({i \in LinesWith(region_start_regex) : i < j})), PyInt(j)>> >>
         \o OffsetsFrom(j + 1, e)
    ELSE OffsetsFrom(j + 1, e)
OffsetsOf(e) == OffsetsFrom(StartOf(e) + 1, e)

\* the offsets self.endpoints holds, score after score
RECURSIVE Flat(_)
Flat(ll) == IF Len(ll) = 0 THEN <<>> ELSE Head(ll) \o Flat(Tail(ll))

\* parse_endpoints has returned or raised
Constructed == request # None /\ pc \in {"returned", "raised"}

\* C14: with batch_num = 'last', parse_endpoints leaves in self.endpoints
\* the region offsets of the last edition of the file that its
\* simulation-time marker completes, and in self.batch_num that edition's
\* batch number, whether or not the file goes on with the beginning of
\* another edition.
LastCompletedEdition ==
    (Constructed /\ PyEq(request.batch_num, PyStr("last")) /\ Completed # {}) =>
        /\ pc = "returned"
        /\ Flat(endpoints) = OffsetsOf(Latest(Completed))
        /\ PyEq(batch_num, PyInt(BatchOf(Latest(Completed))))

\* C15: with an integer batch_num that no completed edition of the file
\* carries, parse_endpoints raises.
UnknownBatchRaises ==
    (Constructed /\ request.batch_num.k = "int"
       /\ \A e \in Completed : BatchOf(e) # request.batch_num.v) =>
        pc = "raised"

\* ------------------------------------------------------------------------
\* properties of the Tripoli-4 XML reader
\* ------------------------------------------------------------------------

\* a call of mean_result or batch_result has ended
XmlCalled == soup # None /\ request # None /\ pc \in {"returned", "raised"}

\* the children of <batches> the call chooses among: the <mean_results> for
\* mean_result, the <batch> for batch_result
Recorded ==
    {i \in 1..Len(soup.batches) :
        soup.batches[i].tag = IF request.op = "mean_result" THEN "mean_results"
                              ELSE "batch"}
Carrying(n) == {i \in Recorded : soup.batches[i].num = n}

\* C16: in mean_result and in batch_result, batch_num 'last' reads the last
\* block of the file (the last <mean_results>, the last <batch>), an integer
\* reads the block carrying that number and the call fails when there is none,
\* and any other batch_num is rejected.
BatchSelected ==
    XmlCalled =>
        IF PyEq(request.batch_num, PyStr("last"))
        THEN Recorded # {} => found = Latest(Recorded)
        ELSE IF request.batch_num.k = "int"
        THEN IF Carrying(request.batch_num.v) = {}
             THEN pc = "raised" /\ found = 0
             ELSE found \in Carrying(request.batch_num.v)
        ELSE pc = "raised" /\ found = 0

\* the same of mean_result alone
MeanSelected == (XmlCalled /\ request.op = "mean_result") => BatchSelected

\* the score of the file, its grid as stored, and what the file stores for it
\* in the block the call read
TheScore == soup.scores_definition[1]
RawGrid == FromString(soup.list_decoupage[grid_xml(soup, TheScore.nrj_dec)].string)
Mesh == TheScore.gelement_def[1].zone_type = "SPECIAL_MESH"
StoredValues ==
    LET g == soup.batches[found].result[1].gelement[1]
    IN IF request.op = "mean_result"
       THEN [val |-> Floats(g.val), sd |-> Floats(g.sd)]
       ELSE [val |-> FromString(g.string), sd |-> <<>>]

\* the place in the file of the value of energy bin j (from 1, in the order of
\* the stored grid) for the time step and the cell of the request
PlaceOf(j) ==
    LET ne == Len(RawGrid) - 1
        nx == TheScore.gelement_def[1].nx
    IN IF Mesh
       THEN IF request.op = "mean_result"
            THEN ((request.time_step * ne + (j - 1)) * nx + request.cell[1]) + 1
            ELSE ((request.cell[1] * ne + (j - 1)) * nx + request.cell[2]) + 1
       ELSE request.time_step * ne + j

\* the stored bin between two edges
BinBetween(lo, hi) ==
    CHOOSE j \in 1..(Len(RawGrid) - 1) : {RawGrid[j], RawGrid[j + 1]} = {lo, hi}

\* a stored value, divided as the request and the score ask
Scaled(v, lo, hi) ==
    LET d == TheScore.gelement_def[1].div_value
        w == IF request.divide_by_bin THEN Div(v, Sub(hi, lo)) ELSE v
    IN IF ~Mesh /\ Len(d) > 0 /\ ~IsZero(Float(d)) THEN Div(w, Float(d)) ELSE w

\* the call returned a Result with a value for every bin and the trailing zero
WholeResult ==
    /\ XmlCalled
    /\ pc = "returned"
    /\ Len(returned.contents.v) = Len(returned.edges.v)
    /\ Len(returned.edges.v) = Len(RawGrid)

\* C17: a Result of mean_result or batch_result has ascending edges, and
\* contents[i] (errors[i] for mean_result) is the value the file stores for the
\* bin between edges[i] and edges[i+1], whether the stored grid ascends or
\* descends.
AscendingWithBins ==
    WholeResult =>
        LET edges == returned.edges.v
        IN /\ \A i \in 1..(Len(edges) - 1) : Lt(edges[i], edges[i + 1])
           /\ \A i \in 1..(Len(edges) - 1) :
                 LET at == PlaceOf(BinBetween(edges[i], edges[i + 1]))
                 IN /\ returned.contents.v[i]
                          = Scaled(StoredValues.val[at], edges[i], edges[i + 1])
                    /\ request.op = "mean_result" =>
                          returned.errors.v[i]
                             = Scaled(StoredValues.sd[at], edges[i], edges[i + 1])

\* the same of mean_result alone, for a score without time steps in a volume
AscendingInVolume ==
    (XmlCalled /\ request.op = "mean_result" /\ ~Mesh /\ IsNone(TheScore.tps_dec))
        => AscendingWithBins
\* the same on ascending grids
AscendingStored ==
    (XmlCalled /\ ~_is_descending_grid(RawGrid)) => AscendingWithBins

\* ------------------------------------------------------------------------
\* more properties of the MCTAL parser
\* ------------------------------------------------------------------------

\* C21: a Result that extract_result returns has contents, errors and
\* xerrors of the length of its edges, the xerrors being the differences of
\* consecutive grid values.
FourFieldsAligned ==
    ExtractReturned =>
        LET r == pool[returned]
        IN /\ LenOf(heap, r.contents) = LenOf(heap, r.edges)
           /\ LenOf(heap, r.errors) = LenOf(heap, r.edges)
           /\ Val(heap, r.xerrors) = Ediff1d(Val(heap, r.edges))
           /\ LenOf(heap, r.xerrors) = LenOf(heap, r.edges)

\* the same without the xerrors
ThreeFieldsAligned ==
    ExtractReturned =>
        LET r == pool[returned]
        IN /\ LenOf(heap, r.contents) = LenOf(heap, r.edges)
           /\ LenOf(heap, r.errors) = LenOf(heap, r.edges)
           /\ Val(heap, r.xerrors) = Ediff1d(Val(heap, r.edges))
           /\ LenOf(heap, r.xerrors) + 1 = LenOf(heap, r.edges)

\* the lines the scan of the last call has read
LinesRead == (start_dict[request.tally_number] + 1)..pos

\* C22: extract_result(T, z) takes its zones, grid and values from lines
\* between a header of tally T and the next tally header: a call that returns
\* has read no line of another block, and the header it started from is one
\* of tally T.
TallyConfined ==
    ExtractReturned =>
        /\ start_dict[request.tally_number] \in TallyLines(file)
        /\ Decimal(MatchTally(file[start_dict[request.tally_number]]))
              = request.tally_number
        /\ \A i \in LinesRead : MatchTally(file[i]) = <<>>

\* the same where the block of the tally is whole
WholeBlockConfined ==
    (ExtractReturned
        /\ \E b \in SecondBlocks :
              SubSeq(file, start_dict[request.tally_number],
                     Len(file)) = [i \in 1..Len(b) |-> Append(b[i], "\n")])
        => TallyConfined

\* ------------------------------------------------------------------------
\* more properties of the transforms
\* ------------------------------------------------------------------------

BinSizeOps == {"divide_by_bin_size", "multiply_by_bin_size"}

\* the last call was one the text says must fail: a rebin by a number that
\* does not divide E-1, or a bin-size transform with an unknown pad
MustFail ==
    \/ /\ last.op = "rebin"
       /\ Len(SelfBefore.edges.v) >= 1
       /\ (Len(SelfBefore.edges.v) - 1) % last.args.nbins # 0
    \/ /\ last.op \in BinSizeOps
       /\ last.args.pad \notin {"first", "last"}

\* C28: a rebin that fails because nbins does not divide E-1, and a
\* divide_by_bin_size or multiply_by_bin_size that fails because of its pad,
\* leave the four fields of the Result as they were before the call.
FailureAtomic ==
    (last.op \in {"rebin"} \cup BinSizeOps /\ WellFormedBefore /\ MustFail) =>
        /\ ~last.ok
        /\ SelfNow = SelfBefore

\* the same of the bin-size transforms alone
PadFailureAtomic ==
    (last.op \in BinSizeOps /\ WellFormedBefore /\ MustFail) =>
        /\ ~last.ok
        /\ SelfNow = SelfBefore

\* the last call was one of those of C29, on a Result without errors
OnErrorsAbsent ==
    /\ last.op \in {"mul", "div", "chop"} \cup BinSizeOps
    /\ last.op \in {"mul", "div"} => last.b = 0
    /\ last.op \in BinSizeOps => last.args.pad \in {"first", "last"}
    /\ IsNone(SelfBefore.errors)
    /\ WellFormedBefore

\* the contents these calls are to leave
ContentsAfter ==
    LET c == SelfBefore.contents.v
    IN CASE last.op = "mul" -> SMul(c, last.args.v)
         [] last.op = "div" -> SDiv(c, last.args.v)
         [] last.op = "chop" -> Masked(c, c, last.args.threshold)
         [] last.op = "divide_by_bin_size" ->
                VDiv(c, BinSizes(SelfBefore.edges.v, last.args.pad))
         [] last.op = "multiply_by_bin_size" ->
                VMul(c, BinSizes(SelfBefore.edges.v, last.args.pad))

\* C29: mul and div by a scalar, chop, divide_by_bin_size and
\* multiply_by_bin_size succeed on a Result without errors, give the contents
\* they give when errors are present, and leave the errors absent.
ErrorsAbsentSucceeds ==
    OnErrorsAbsent =>
        /\ last.ok
        /\ LET r == IF last.op \in {"mul", "div"} THEN ValR(heap, pool[last.dst])
                    ELSE SelfNow
           IN /\ r.contents.v = ContentsAfter
              /\ IsNone(r.errors)
              /\ r.edges = SelfBefore.edges

\* what these calls do on a Result without errors: they fail, mul and div
\* leaving the receiver as it was, the others with the contents transformed
ErrorsAbsentFails ==
    OnErrorsAbsent =>
        /\ ~last.ok
        /\ SelfNow.edges = SelfBefore.edges
        /\ IsNone(SelfNow.errors)
        /\ SelfNow.contents.v =
              IF last.op \in {"mul", "div"} THEN SelfBefore.contents.v ELSE ContentsAfter

\* the edge append_bin is to add
EdgeToAdd ==
    LET e == SelfBefore.edges.v
    IN IF IsNone(last.args.edge)
       THEN Sub(Mul(Int2Num(2), e[Len(e)]), e[Len(e) - 1])
       ELSE last.args.edge

\* an append_bin that can find its edge
CanAppend ==
    /\ last.op = "append_bin"
    /\ WellFormedBefore
    /\ ~IsNone(last.args.edge) \/ Len(SelfBefore.edges.v) >= 2

\* C30: append_bin(edge, content, error, xerror) appends the edge given (any
\* number, 0 included), or the extrapolated edge when none is given, to edges,
\* content to contents, error to errors and xerror to xerrors where these are
\* present; absent arrays stay absent and the earlier entries are kept.
AppendBinAppends ==
    CanAppend =>
        /\ last.ok
        /\ SelfNow.edges.v = Append(SelfBefore.edges.v, EdgeToAdd)
        /\ SelfNow.contents.v = Append(SelfBefore.contents.v, last.args.content)
        /\ IF IsNone(SelfBefore.errors) THEN IsNone(SelfNow.errors)
           ELSE SelfNow.errors.v = Append(SelfBefore.errors.v, last.args.error)
        /\ IF IsNone(SelfBefore.xerrors) THEN IsNone(SelfNow.xerrors)
           ELSE SelfNow.xerrors.v = Append(SelfBefore.xerrors.v, last.args.xerror)

\* the same for a nonzero edge, or none, on a Result without xerrors
AppendBinPlain ==
    (CanAppend /\ IsNone(SelfBefore.xerrors)
        /\ (IsNone(last.args.edge) \/ ~IsZero(last.args.edge)))
        => AppendBinAppends

\* ------------------------------------------------------------------------
\* more properties of the Tripoli-4 text parser
\* ------------------------------------------------------------------------

\* the data rows between the offsets the last result() read
RowsRead == DataRows(file, span[1].v, span[2].v)

\* what result() is to list for the rows from row i on: the bin of each row,
\* a gap after it where the next row starts elsewhere, the sentinel after
\* the last one
RECURSIVE Listed(_, _)
Listed(rows, i) ==
    IF i > Len(rows) THEN <<>>
    ELSE <<[edge |-> FloatOf(rows[i].xlo), content |-> FloatOf(rows[i].val),
            row |-> TRUE]>>
         \o (IF i = Len(rows) \/ FloatOf(rows[i].xhi) # FloatOf(rows[i + 1].xlo)
             THEN <<[edge |-> FloatOf(rows[i].xhi), content |-> Zero, row |-> FALSE]>>
             ELSE <<>>)
         \o Listed(rows, i + 1)

\* result() has returned a Result for a region with data rows
ResultOfRows == request # None /\ pc = "done" /\ Len(RowsRead) >= 1

\* C23: the Result of result() lists for every data row of the region an
\* entry with its low edge and its value, a gap entry (high edge, 0, 0) where
\* the next row does not start at that high edge, and one sentinel (last high
\* edge, 0, 0) at the end; edges, contents and errors have one length.
EditionAssembly ==
    ResultOfRows =>
        LET l == Listed(RowsRead, 1)
        IN /\ returned.edges.v = [i \in 1..Len(l) |-> l[i].edge]
           /\ returned.contents.v = [i \in 1..Len(l) |-> l[i].content]
           /\ Len(returned.errors.v) = Len(l)
           /\ \A i \in 1..Len(l) : ~l[i].row => returned.errors.v[i] = Zero

\* what result() does: the same without the entry of the last row, and
\* with the gaps found by comparing the fields as they are written
AssemblyWithoutLast ==
    ResultOfRows =>
        /\ returned.edges.v = [i \in 1..Len(Binned(RowsRead, 1)) |->
                                  Binned(RowsRead, 1)[i].edge]
        /\ Len(returned.contents.v) = Len(returned.edges.v)
        /\ Len(returned.errors.v) = Len(returned.edges.v)
        /\ \A i \in 1..Len(returned.contents.v) :
              returned.contents.v[i] # FloatOf(RowsRead[Len(RowsRead)].val)
                 \/ Len(RowsRead) > 1

\* the edition parse_endpoints kept: the one whose simulation time is the
\* last the scan has read
KeptEdition == Latest({e \in LinesWith(edition_end_regex) : e <= pos})

\* the score sections of an edition, named by the lines that start them; the
\* line after the last line of a section; its name; the offsets of its regions
SectionsOf(e) == {i \in LinesWith(score_start_regex) : StartOf(e) < i /\ i < e}
SectionEnd(i, e) ==
    LET later == {j \in SectionsOf(e) : j > i}
    IN IF later = {} THEN e ELSE CHOOSE j \in later : \A k \in later : j <= k
NameOf(i, e) ==
    NameGroup(file[Latest({j \in i..(SectionEnd(i, e) - 1) : NameGroup(file[j]) # <<>>})])
RECURSIVE RangesFrom(_, _)
RangesFrom(j, end) ==
    IF j >= end THEN <<>>
    ELSE IF j \in LinesWith(region_end_regex)
    THEN << <<PyInt(Latest({i \in LinesWith(region_start_regex) : i < j})), PyInt(j)>> >>
         \o RangesFrom(j + 1, end)
    ELSE RangesFrom(j + 1, end)
RangesOf(i, e) == RangesFrom(i, SectionEnd(i, e))

\* the section that declares a name last
Declares(i, e) ==
    \A j \in SectionsOf(e) : NameOf(j, e) = NameOf(i, e) => j <= i

\* C24: after parse_endpoints the index score_numbers gives to a score name
\* of the edition kept addresses, in endpoints, the ranges of the regions of
\* the score of that name, whatever regions the scores of the edition have;
\* result(name, r) reads range r of that score.
ScoreIndexAligned ==
    (request # None /\ pc \in {"returned", "done", "failed"}) =>
        /\ \A i \in SectionsOf(KeptEdition) :
              Declares(i, KeptEdition) =>
                 /\ NameOf(i, KeptEdition) \in DOMAIN score_numbers
                 /\ score_numbers[NameOf(i, KeptEdition)] < Len(endpoints)
                 /\ endpoints[score_numbers[NameOf(i, KeptEdition)] + 1] = RangesOf(i, KeptEdition)
        /\ (pc = "done" /\ request.score.k = "str") =>
              \E i \in SectionsOf(KeptEdition) :
                 /\ Declares(i, KeptEdition)
                 /\ NameOf(i, KeptEdition) = request.score.v
                 /\ span = RangesOf(i, KeptEdition)[request.region_rank + 1]

\* the same where every score of the edition but the last has a region
EveryScoreHasRegions ==
    \A i \in SectionsOf(KeptEdition) : SectionEnd(i, KeptEdition) # KeptEdition => RangesOf(i, KeptEdition) # <<>>
AlignedWhenFull ==
    (request # None /\ pc \in {"returned", "done", "failed"} /\ EveryScoreHasRegions)
        => ScoreIndexAligned

\* the scan is at the simulation time of an edition whose region footers
\* report the batch number asked for
AtWantedEnd ==
    /\ request # None
    /\ pc = "reading"
    /\ pos < Len(file)
    /\ Matches(edition_end_regex, file[pos + 1])
    /\ RegionEndsOf(pos + 1) # {}
    /\ PyEq(batch_num, PyInt(BatchOf(pos + 1)))

\* C25: with an integer batch_num the scan stops at the simulation time of
\* an edition whose region footers report that batch number; from then on
\* endpoints and score_names are those of that edition; and the scan stops
\* nowhere but at an edition with a footer that reports batch_num.
EarlyStop ==
    /\ [][AtWantedEnd =>
            /\ pc' = "left"
            /\ Flat(endpoints') = OffsetsOf(pos + 1)]_vars
    /\ [][(pc \in {"left", "returned", "done", "failed"}) =>
            (UNCHANGED <<endpoints, score_names>>)]_vars
    /\ [](pc = "left" =>
            /\ RegionEndsOf(pos) # {}
            /\ PyEq(batch_num, PyInt(BatchOf(pos))))

\* the same without its last part
StopsAtWantedEnd ==
    /\ [][AtWantedEnd =>
            /\ pc' = "left"
            /\ Flat(endpoints') = OffsetsOf(pos + 1)]_vars
    /\ [][(pc \in {"left", "returned", "done", "failed"}) =>
            (UNCHANGED <<endpoints, score_names>>)]_vars

\* ------------------------------------------------------------------------
\* more properties of the Tripoli-4 XML reader
\* ------------------------------------------------------------------------

\* the time steps of the score, and a selector that names one of them
TimeSteps ==
    IF IsNone(TheScore.tps_dec) THEN 1
    ELSE Len(FromString(soup.list_decoupage[grid_xml(soup, TheScore.tps_dec.v)].string)) - 1
ValidSelector ==
    /\ request.time_step < TimeSteps
    /\ Mesh => /\ request.cell[1] < TheScore.gelement_def[1].nx
               /\ request.cell[2] < TheScore.gelement_def[1].ny
               /\ request.cell[3] < TheScore.gelement_def[1].nz

\* mean_result has returned a Result for a valid selector
MeanReturned ==
    XmlCalled /\ request.op = "mean_result" /\ pc = "returned" /\ ValidSelector

\* the stored energy bin that entry i of an ascending Result is about
StoredBin(i) ==
    IF _is_descending_grid(RawGrid) THEN Len(RawGrid) - i ELSE i

\* C26: for an ascending and for a descending grid, mean_result(score,
\* time_step = t, cell = c) returns, one per energy bin, the values and the
\* standard deviations the file stores for time step t and cell c (the window
\* t of the stored list, or the slice (t, :, c) of the stored mesh); contents
\* and errors have ne + 1 entries, the last of them 0.
SliceSelected ==
    MeanReturned =>
        LET ne == Len(RawGrid) - 1
            lo(i) == IF Lt(RawGrid[i], RawGrid[i + 1]) THEN RawGrid[i] ELSE RawGrid[i + 1]
            hi(i) == IF Lt(RawGrid[i], RawGrid[i + 1]) THEN RawGrid[i + 1] ELSE RawGrid[i]
        IN /\ Len(returned.contents.v) = ne + 1
           /\ Len(returned.errors.v) = ne + 1
           /\ returned.contents.v[ne + 1] = Zero
           /\ returned.errors.v[ne + 1] = Zero
           /\ \A i \in 1..ne :
                 LET j == StoredBin(i)
                 IN /\ returned.contents.v[i]
                          = Scaled(StoredValues.val[PlaceOf(j)], lo(j), hi(j))
                    /\ returned.errors.v[i]
                          = Scaled(StoredValues.sd[PlaceOf(j)], lo(j), hi(j))

\* the same on ascending grids, and on descending grids of a score with one
\* time step in a volume
SliceOfAscending ==
    (MeanReturned /\ ~_is_descending_grid(RawGrid)) => SliceSelected
SliceOfOneWindow ==
    (MeanReturned /\ ~Mesh /\ IsNone(TheScore.tps_dec)) => SliceSelected

\* labels has returned the labels of a score that mean_result was called for
Labelled ==
    /\ soup # None /\ request # None
    /\ request.op = "labels" /\ pc = "returned"
    /\ request.score_name \in DOMAIN asked
LabelledScore == soup.scores_definition[score_xml(soup, request.score_name)]
Carries(label, piece) == \E i \in 1..Len(label) : label[i] = piece

\* what the x axis of a score is called
AxisLabel(score) ==
    IF ~IsNone(score.tps_dec) THEN "time"
    ELSE IF ~IsNone(score.mu_dec) THEN "$\\mu$"
    ELSE "energy [MeV]"

\* C27: after any calls of mean_result and labels on one T4XMLResult, the y
\* label of labels(s) carries the unit of the bin width exactly when the last
\* mean_result for s had divide_by_bin = True, whatever the calls for other
\* scores had, and the area unit exactly when s has a divisor; the x label is
\* 'time' for a score with a time grid, else the angle label for one with an
\* angle grid, else the energy label.
LabelConsistent ==
    Labelled =>
        /\ Carries(returned.ylabel.unit, " MeV") <=> asked[request.score_name]
        /\ Carries(returned.ylabel.unit, " cm$^2$")
              <=> Len(LabelledScore.gelement_def[1].div_value) > 0
        /\ returned.xlabel = AxisLabel(LabelledScore)

\* what labels does: the unit of the bin width follows the attribute the last
\* mean_result of any score left, the area unit is always there
LabelOfLastCall ==
    Labelled =>
        /\ Carries(returned.ylabel.unit, " MeV") <=> divide_by_bin.v
        /\ Carries(returned.ylabel.unit, " cm$^2$")
        /\ returned.xlabel = AxisLabel(LabelledScore)
\* the unit of the bin width, where mean_result was called for one score only
\* and returned each time
LabelOfOneScore ==
    (Labelled /\ Cardinality(DOMAIN asked) = 1 /\ found # 0) =>
        (Carries(returned.ylabel.unit, " MeV") <=> asked[request.score_name])

====
